---- MODULE Spec2Model ----
(***************************************************************************)
(* Ingestion and triage pipeline of the AI admin assistant.                *)
(*                                                                         *)
(* The model follows src/server/routes.js (the router with the summary    *)
(* step, lines 187-491), src/server/ai.js and the Gmail client in          *)
(* src/unnamed/part_001.                                                   *)
(*                                                                         *)
(* Representation notes                                                    *)
(*  - JavaScript null is the record Null; JSON scalars are tagged records  *)
(*    (Str, Num) so that values of different JavaScript types can be       *)
(*    compared.  Numbers are kept in tenths (Num(9) is 0.9).               *)
(*  - A mail text is a run-length string: a sequence of runs               *)
(*    [ws |-> BOOLEAN, n |-> length].  trim() and .length are computed on  *)
(*    the runs, so bodies of 900 and 901 characters stay small values.     *)
(*  - A raw model output is a sequence of tokens: "{", "}", " " (white     *)
(*    space), "t" (any other commentary) and Members(obj), the text of the *)
(*    members of a JSON object.                                            *)
(*  - A request handler is a process; every await of the handler is one    *)
(*    atomic step that ends where the next awaited call has been issued.   *)
(***************************************************************************)
EXTENDS Integers, Sequences, FiniteSets, TLC

(***************************************************************************)
(* Bounds of the model.                                                    *)
(***************************************************************************)
NumSlots == 2        \* sync requests that can be in flight at once
NumMsgs == 1         \* messages in the mailbox when requests overlap
MaxNow == 3          \* sync requests started when requests overlap
SeqMsgs == 3         \* messages in the mailbox when requests do not overlap
SeqRuns == 2         \* sync requests started when requests do not overlap
MaxRaw == 4          \* tokens of a raw model output, all outputs enumerated
MaxLines == 3        \* lines of a mail body given to cleanEmailBody
MaxParts == 2        \* parts at the top level of a message payload

VARIABLES
  world,      \* the environment of a behaviour, fixed by Init: the mailbox
              \* (gmailId -> immutable content), the usable request slots and
              \* the answers the network can give
  store,      \* users/{uid}/emails: document id -> document data
  now,        \* Date.now(); the clock ticks when a request arrives
  pc,         \* per request: the await the handler is suspended at
  loc,        \* per request: the handler's local variables
  resp,       \* per request: the HTTP response sent (NoResp before)
  quiet,      \* history: no other request was in flight during this one
              \*          and none of its messages was stored when fetched
  doneAtStart,\* history: gmailIds whose stored ai was error-free at start
  upserted,   \* history: the upsert of the current message has completed
  gen,        \* one call of triageEmail or summarizeEmail, followed through
              \* the awaits of ollamaGenerate
  call        \* a function of the mail client or of ai.js applied on its
              \* own, or a request to a route other than the sync: what was
              \* called, with what, and what came back

vars == <<world, store, now, pc, loc, resp, quiet, doneAtStart, upserted, gen, call>>

Slots == 1..NumSlots

(***************************************************************************)
(* JavaScript / JSON values.                                               *)
(***************************************************************************)
Null == [t |-> "null"]
Str(s) == [t |-> "str", v |-> s]
Num(n) == [t |-> "num", v |-> n]
IsStr(x) == x.t = "str"
IsNum(x) == x.t = "num"

\* obj.key of a JavaScript object (undefined, here Null, when absent)
Field(obj, key) == IF key \in DOMAIN obj THEN obj[key] ELSE Null

\* JavaScript truthiness of a tagged scalar
Truthy(x) ==
  CASE x.t = "null" -> FALSE
    [] x.t = "str" -> x.v # ""
    [] x.t = "num" -> x.v # 0
    [] OTHER -> TRUE

\* { ...obj, key: val }
With(obj, key, val) ==
  [k \in DOMAIN obj \cup {key} |-> IF k = key THEN val ELSE obj[k]]

\* { ...obj, ...upd }
Merge(obj, upd) ==
  [k \in DOMAIN obj \cup DOMAIN upd |-> IF k \in DOMAIN upd THEN upd[k] ELSE obj[k]]

(***************************************************************************)
(* Run-length strings.                                                     *)
(***************************************************************************)
Run(ws, n) == [ws |-> ws, n |-> n]
EmptyText == << >>

RECURSIVE TextLen(_)
TextLen(t) == IF t = << >> THEN 0 ELSE Head(t).n + TextLen(Tail(t))

RECURSIVE TrimStart(_)
TrimStart(t) ==
  IF t = << >> THEN << >>
  ELSE IF Head(t).ws THEN TrimStart(Tail(t)) ELSE t

RECURSIVE TrimEnd(_)
TrimEnd(t) ==
  IF t = << >> THEN << >>
  ELSE IF t[Len(t)].ws THEN TrimEnd(SubSeq(t, 1, Len(t) - 1)) ELSE t

\* String.prototype.trim
Trim(t) == TrimEnd(TrimStart(t))

\* a || b || c || "" on strings: the first non-empty one
FirstNonEmpty(a, b, c) ==
  IF TextLen(a) > 0 THEN a
  ELSE IF TextLen(b) > 0 THEN b
  ELSE IF TextLen(c) > 0 THEN c
  ELSE EmptyText

pickMessage(email) ==
  Trim(FirstNonEmpty(email.cleanBodyText, email.bodyText, email.snippet))

(***************************************************************************)
(* src/server/ai.js                                                        *)
(***************************************************************************)
Categories == {"CANCELLATION", "FREEZE_REQUEST", "BOOKING_CHANGE",
               "BILLING_INVOICE", "COMPLAINT", "GENERAL_QUESTION", "SPAM_OTHER"}
Urgencies == {"LOW", "MEDIUM", "HIGH"}

\* Date.now() as a JSON number
Ms(n) == Num(10 * n)

\* tokens of a raw model output
Tok(c) == [c |-> c]
Members(obj) == [c |-> "members", obj |-> obj]

\* a value returned, or an Error thrown with the given message
Ret(v) == [ok |-> TRUE, value |-> v]
Throw(m) == [ok |-> FALSE, error |-> m]

RECURSIVE IndexOf(_, _, _)
\* text.indexOf(c) from position i, 1-based; 0 when absent
IndexOf(text, c, i) ==
  IF i > Len(text) THEN 0
  ELSE IF text[i].c = c THEN i ELSE IndexOf(text, c, i + 1)

RECURSIVE LastIndexOf(_, _, _)
\* text.lastIndexOf(c) searching down from position i; 0 when absent
LastIndexOf(text, c, i) ==
  IF i < 1 THEN 0
  ELSE IF text[i].c = c THEN i ELSE LastIndexOf(text, c, i - 1)

\* the tokens of a text that are not white space
NoSpace(text) == SelectSeq(text, LAMBDA k : k.c # " ")

\* JSON.parse of a token sequence: an object literal or a SyntaxError
JSONparse(text) ==
  LET u == NoSpace(text) IN
  IF Len(u) = 2 /\ u[1].c = "{" /\ u[2].c = "}" THEN Ret(<< >>)
  ELSE IF Len(u) = 3 /\ u[1].c = "{" /\ u[2].c = "members" /\ u[3].c = "}"
       THEN Ret(u[2].obj)
  ELSE Throw("SyntaxError")

\* mutant of extractJson: the object ends at the first "}"
extractJsonFirstClose(text) ==
  LET start == IndexOf(text, "{", 1)
      end == IndexOf(text, "}", 1)
  IN IF start = 0 \/ end = 0
     THEN Throw("Model did not return JSON (no braces found).")
     ELSE LET parsed == JSONparse(SubSeq(text, start, end)) IN
          IF parsed.ok THEN parsed ELSE Throw("Model returned malformed JSON.")

extractJson(text) ==
  LET start == IndexOf(text, "{", 1)
      end == LastIndexOf(text, "}", Len(text))
  IN IF start = 0 \/ end = 0
     THEN Throw("Model did not return JSON (no braces found).")
     ELSE LET parsed == JSONparse(SubSeq(text, start, end)) IN
          IF parsed.ok THEN parsed ELSE Throw("Model returned malformed JSON.")

\* mutant of ConfidenceOk: the upper bound is forgotten
ConfidenceOkNoMax(x) == IsNum(x) /\ x.v >= 0

\* z.number().min(0).max(1), on tenths
ConfidenceOk(x) == IsNum(x) /\ x.v >= 0 /\ x.v <= 10

\* mutant of NonEmptyStr: z.string()
AnyStr(x) == IsStr(x)

\* z.string().min(1)
NonEmptyStr(x) == IsStr(x) /\ x.v # ""

\* mutant of TriageSchema: .passthrough(), the keys the schema does not name
\* are kept
TriageSchemaPassthrough(json) ==
  LET category == Field(json, "category")
      urgency == Field(json, "urgency")
      confidence == Field(json, "confidence")
      reply_draft == Field(json, "reply_draft")
  IN IF /\ IsStr(category) /\ category.v \in Categories
        /\ IsStr(urgency) /\ urgency.v \in Urgencies
        /\ ConfidenceOk(confidence)
        /\ NonEmptyStr(reply_draft)
     THEN [success |-> TRUE, data |-> json]
     ELSE [success |-> FALSE, data |-> Null]

\* TriageSchema.safeParse(json); z.object drops the keys it does not name
TriageSchema(json) ==
  LET category == Field(json, "category")
      urgency == Field(json, "urgency")
      confidence == Field(json, "confidence")
      reply_draft == Field(json, "reply_draft")
  IN IF /\ IsStr(category) /\ category.v \in Categories
        /\ IsStr(urgency) /\ urgency.v \in Urgencies
        /\ ConfidenceOk(confidence)
        /\ NonEmptyStr(reply_draft)
     THEN [success |-> TRUE,
           data |-> [category |-> category, urgency |-> urgency,
                     confidence |-> confidence, reply_draft |-> reply_draft]]
     ELSE [success |-> FALSE, data |-> Null]

\* z.array(z.string().min(1)).max(5)
KeyPointsOk(x) ==
  /\ x.t = "arr"
  /\ Len(x.v) <= 5
  /\ \A i \in 1..Len(x.v) : NonEmptyStr(x.v[i])

\* SummarySchema.safeParse(json)
SummarySchema(json) ==
  LET summary == Field(json, "summary")
      key_points == Field(json, "key_points")
  IN IF /\ NonEmptyStr(summary)
        /\ ("key_points" \in DOMAIN json => KeyPointsOk(key_points))
     THEN [success |-> TRUE,
           data |-> IF "key_points" \in DOMAIN json
                    THEN [summary |-> summary, key_points |-> key_points]
                    ELSE [summary |-> summary]]
     ELSE [success |-> FALSE, data |-> Null]

RECURSIVE TrimTokens(_)
\* String.prototype.trim on a raw model output
TrimTokens(text) ==
  IF text = << >> THEN << >>
  ELSE IF Head(text).c = " " THEN TrimTokens(Tail(text))
  ELSE IF text[Len(text)].c = " " THEN TrimTokens(SubSeq(text, 1, Len(text) - 1))
  ELSE text

EXCERPT_LEN == 300

\* txt.slice(0, n)
Slice(txt, n) == IF Len(txt) <= n THEN txt ELSE SubSeq(txt, 1, n)

\* the messages of the two throws of the catch block (lines 116-117)
TimeoutMessage(timeoutMs) == "Ollama timeout after " \o ToString(timeoutMs) \o "ms"
RequestFailed(message) == "Ollama request failed: " \o message

\* What the network does with the one request of ollamaGenerate:
\*   [kind |-> "abort"]    the timeoutMs timer aborts the pending fetch
\*   [kind |-> "neterr"]   fetch rejects with a transport error
\*   [kind |-> "http", ok, status, body]   a response arrived; body is what
\*       reading it gives: for an ok response the parsed JSON, for another
\*       one the text, and Null when the read rejected (a broken or aborted
\*       stream, for an ok response also a body that is not JSON)
ollamaGenerate(net, timeoutMs) ==
  CASE net.kind = "abort" ->
         Throw(TimeoutMessage(timeoutMs))
    [] net.kind = "neterr" ->
         Throw(RequestFailed("fetch failed"))
    [] net.kind = "http" /\ ~net.ok ->
         LET txt == IF net.body = Null THEN "" ELSE net.body.v IN
         Throw(RequestFailed("Ollama error " \o ToString(net.status) \o ": "
                             \o Slice(txt, EXCERPT_LEN)))
    [] OTHER ->
         LET d == IF net.body = Null THEN << >> ELSE net.body
             r == Field(d, "response")
         IN Ret(IF r.t = "text" THEN TrimTokens(r.v) ELSE << >>)

RECURSIVE SliceText(_, _)
\* String.prototype.slice(0, n) on a run-length string
SliceText(t, n) ==
  IF t = << >> \/ n <= 0 THEN << >>
  ELSE IF Head(t).n <= n THEN <<Head(t)>> \o SliceText(Tail(t), n - Head(t).n)
  ELSE <<Run(Head(t).ws, n)>>

\* the same with the cut before the trim
PromptBodyCutFirst(email, maxChars) ==
  Trim(SliceText(FirstNonEmpty(email.cleanBodyText, email.bodyText, email.snippet), maxChars))

\* const body = pickMessage(email).slice(0, maxChars)  (lines 130 and 248)
PromptBody(email, maxChars) == SliceText(pickMessage(email), maxChars)

triageEmail(net, timeoutMs) ==
  LET text == ollamaGenerate(net, timeoutMs) IN
  IF ~text.ok THEN text
  ELSE LET json == extractJson(text.value) IN
       IF ~json.ok THEN json
       ELSE LET parsed == TriageSchema(json.value) IN
            IF ~parsed.success
            THEN Throw("Ollama JSON failed schema validation: issues")
            ELSE Ret(parsed.data)

summarizeEmail(net, timeoutMs) ==
  LET text == ollamaGenerate(net, timeoutMs) IN
  IF ~text.ok THEN text
  ELSE LET json == extractJson(text.value) IN
       IF ~json.ok THEN json
       ELSE LET parsed == SummarySchema(json.value) IN
            IF ~parsed.success
            THEN Throw("Summary JSON failed schema validation: issues")
            ELSE Ret(parsed.data)

(***************************************************************************)
(* The mail source: fetchLatestEmails of src/unnamed/part_001.  A message  *)
(* is immutable in the mailbox; only its labels change between fetches.    *)
(***************************************************************************)
Text(n) == <<Run(FALSE, n)>>
Padded(n) == <<Run(TRUE, 2), Run(FALSE, n), Run(TRUE, 1)>>

\* contents a message of the mailbox can have: a body of exactly the
\* summary threshold and one a character longer
ShortMail ==
  [bodyText |-> Padded(900), cleanBodyText |-> Text(900), snippet |-> Text(100)]
LongMail ==
  [bodyText |-> Padded(901), cleanBodyText |-> Text(901), snippet |-> Text(100)]
Contents == {ShortMail, LongMail}

\* the element pushed to results for message g (lines 47-58)
Email(g, content, unread) ==
  [gmailId |-> g,
   threadId |-> g,
   fromEmail |-> "member@example.com",
   subject |-> "subject",
   dateIso |-> "date",
   snippet |-> content.snippet,
   bodyText |-> content.bodyText,
   cleanBodyText |-> content.cleanBodyText,
   labelIds |-> IF unread THEN {"INBOX", "UNREAD"} ELSE {"INBOX"},
   isUnread |-> unread]

Min(S) == CHOOSE m \in S : \A n \in S : m <= n

RECURSIVE Listing(_)
\* messages.list returns the selected messages in the mailbox order
Listing(S) == IF S = {} THEN << >> ELSE <<Min(S)>> \o Listing(S \ {Min(S)})

\* every result fetchLatestEmails can return for maxResults: some messages
\* of the mailbox, each with the UNREAD label or without it
FetchResults(box, unread, maxResults) ==
  { [i \in 1..Cardinality(S) |-> Email(Listing(S)[i], box[Listing(S)[i]], u[Listing(S)[i]])] :
      <<S, u>> \in { <<S1, u1>> \in (SUBSET DOMAIN box) \X [DOMAIN box -> unread] :
                       /\ Cardinality(S1) <= maxResults
                       /\ \A g \in DOMAIN box \ S1 : u1[g] } }

(***************************************************************************)
(* cleanEmailBody of src/unnamed/part_001 (lines 110-148).  A body is a     *)
(* sequence of characters; the words the reply markers look for ("On",     *)
(* "wrote:", "From:", "Subject:", "Original Message") are single           *)
(* characters of the model, "a" is any other visible character.            *)
(***************************************************************************)
WhiteSpace == {" ", "\n", "\r"}
LineTerminators == {"\n", "\r"}

RECURSIVE CrLf(_)
\* .replace(/\r\n/g, "\n")
CrLf(t) ==
  IF t = << >> THEN << >>
  ELSE IF Len(t) >= 2 /\ t[1] = "\r" /\ t[2] = "\n" THEN <<"\n">> \o CrLf(Tail(Tail(t)))
  ELSE <<Head(t)>> \o CrLf(Tail(t))

RECURSIVE TrimChars(_)
\* String.prototype.trim on a body
TrimChars(t) ==
  IF t = << >> THEN << >>
  ELSE IF Head(t) \in WhiteSpace THEN TrimChars(Tail(t))
  ELSE IF t[Len(t)] \in WhiteSpace THEN TrimChars(SubSeq(t, 1, Len(t) - 1))
  ELSE t

RECURSIVE SplitLines(_)
\* .split("\n")
SplitLines(t) ==
  LET nl == { i \in 1..Len(t) : t[i] = "\n" } IN
  IF nl = {} THEN <<t>>
  ELSE LET i == CHOOSE m \in nl : \A n \in nl : m <= n IN
       <<SubSeq(t, 1, i - 1)>> \o SplitLines(SubSeq(t, i + 1, Len(t)))

RECURSIVE JoinLines(_)
\* .join("\n")
JoinLines(ls) ==
  IF ls = << >> THEN << >>
  ELSE IF Len(ls) = 1 THEN ls[1]
  ELSE ls[1] \o <<"\n">> \o JoinLines(Tail(ls))

\* line.trim().startsWith(">")
Quoted(line) == TrimChars(line) # << >> /\ Head(TrimChars(line)) = ">"

\* ^ and $ of a regular expression with the m flag, before position i
LineStart(t, i) == i = 1 \/ t[i - 1] \in LineTerminators
LineEnd(t, i) == i > Len(t) \/ t[i] \in LineTerminators

\* every character of t from i to j is in S
AllIn(t, i, j, S) == \A k \in i..j : t[k] \in S

\* positions where /^On .*wrote:$/im matches
OnWrote(t) ==
  { i \in 1..Len(t) :
      /\ LineStart(t, i) /\ t[i] = "On" /\ i + 1 <= Len(t) /\ t[i + 1] = " "
      /\ \E j \in (i + 2)..Len(t) :
           /\ t[j] = "wrote:" /\ LineEnd(t, j + 1)
           /\ \A k \in (i + 2)..(j - 1) : t[k] \notin LineTerminators }

\* positions where /^From:\s.*$/im matches, and the same for Sent:, To:
\* and Subject:
HeaderLine(t) ==
  { i \in 1..Len(t) :
      /\ LineStart(t, i) /\ t[i] \in {"From:", "Subject:"}
      /\ i + 1 <= Len(t) /\ t[i + 1] \in WhiteSpace }

\* positions where /^-+\s*Original Message\s*-+$/im matches
OriginalMessage(t) ==
  { i \in 1..Len(t) :
      /\ LineStart(t, i)
      /\ \E p, q, r, e \in i..Len(t) :
           /\ p < q /\ q < r /\ r <= e
           /\ AllIn(t, i, p, {"-"}) /\ AllIn(t, p + 1, q - 1, WhiteSpace)
           /\ t[q] = "Original Message"
           /\ AllIn(t, q + 1, r - 1, WhiteSpace) /\ AllIn(t, r, e, {"-"})
           /\ LineEnd(t, e + 1) }

\* positions where /^c{2,}$/m matches
RuleLine(t, c) ==
  { i \in 1..Len(t) :
      /\ LineStart(t, i)
      /\ \E e \in (i + 1)..Len(t) : AllIn(t, i, e, {c}) /\ LineEnd(t, e + 1) }

\* mutant of CutIdx: the index of the first marker of the list that matches
CutIdxFirstMarker(t) ==
  LET first(S) == CHOOSE m \in S : \A n \in S : m <= n IN
  IF OnWrote(t) # {} THEN first(OnWrote(t))
  ELSE IF HeaderLine(t) # {} THEN first(HeaderLine(t))
  ELSE IF OriginalMessage(t) # {} THEN first(OriginalMessage(t))
  ELSE IF RuleLine(t, "_") # {} THEN first(RuleLine(t, "_"))
  ELSE IF RuleLine(t, "-") # {} THEN first(RuleLine(t, "-"))
  ELSE 0

\* the least m.index over the reply markers, 0 when none matches
CutIdx(t) ==
  LET found == OnWrote(t) \cup HeaderLine(t) \cup OriginalMessage(t)
                 \cup RuleLine(t, "_") \cup RuleLine(t, "-")
  IN IF found = {} THEN 0 ELSE CHOOSE m \in found : \A n \in found : m <= n

\* t.indexOf(pattern), 1-based, 0 when absent
IndexOfSeq(t, pattern) ==
  LET found == { i \in 1..(Len(t) - Len(pattern) + 1) :
                   SubSeq(t, i, i + Len(pattern) - 1) = pattern }
  IN IF found = {} THEN 0 ELSE CHOOSE m \in found : \A n \in found : m <= n

RECURSIVE Collapse(_)
\* .replace(/\n{3,}/g, "\n\n")
Collapse(t) ==
  IF t = << >> THEN << >>
  ELSE IF Len(t) >= 3 /\ t[1] = "\n" /\ t[2] = "\n" /\ t[3] = "\n" THEN Collapse(Tail(t))
  ELSE <<Head(t)>> \o Collapse(Tail(t))

SIGNATURE == <<"\n", "-", "-", " ">>

cleanEmailBody(text) ==
  IF text = << >> THEN << >>
  ELSE LET t0 == TrimChars(CrLf(text))
           t1 == JoinLines(SelectSeq(SplitLines(t0), LAMBDA line : ~Quoted(line)))
           cutIdx == CutIdx(t1)
           t2 == IF cutIdx # 0 THEN TrimChars(SubSeq(t1, 1, cutIdx - 1)) ELSE t1
           sig == IndexOfSeq(t2, SIGNATURE)
           t3 == IF sig # 0 THEN TrimChars(SubSeq(t2, 1, sig - 1)) ELSE t2
       IN TrimChars(Collapse(t3))

(***************************************************************************)
(* extractBodyText of src/unnamed/part_001 (lines 64-102).  A part is      *)
(* [mimeType, data, parts]; data is Null when body.data is missing, else a *)
(* string of base64url groups of four characters.                          *)
(***************************************************************************)
\* data.replace(/-/g, "+").replace(/_/g, "/"), group by group
Base64Std(g) ==
  CASE g = "PGI-" -> "PGI+"
    [] g = "Pz8_" -> "Pz8/"
    [] OTHER -> g

\* Buffer.from(b64, "base64").toString("utf-8"), group by group
Base64Text(g) ==
  CASE g = "YWJj" -> <<"a", "b", "c">>
    [] g = "PGI+" -> <<"<", "b", ">">>
    [] g = "Pz8/" -> <<"?", "?", "?">>
    [] g = "IGEg" -> <<" ", "a", " ">>
    [] OTHER -> <<"?">>

\* a body.data string of the given groups
B64(groups) == [t |-> "b64", v |-> groups]

RECURSIVE DecodeGroups(_)
DecodeGroups(groups) ==
  IF groups = << >> THEN << >>
  ELSE Base64Text(Base64Std(Head(groups))) \o DecodeGroups(Tail(groups))

decodeBase64Url(data) == DecodeGroups(data.v)

RECURSIVE StripTags(_)
\* html.replace(/<[^>]*>/g, " ")
StripTags(t) ==
  IF t = << >> THEN << >>
  ELSE LET close == { i \in 2..Len(t) : t[i] = ">" } IN
       IF Head(t) = "<" /\ close # {}
       THEN <<" ">> \o StripTags(SubSeq(t, (CHOOSE m \in close : \A n \in close : m <= n) + 1, Len(t)))
       ELSE <<Head(t)>> \o StripTags(Tail(t))

RECURSIVE CollapseSpace(_)
\* .replace(/\s+/g, " ")
CollapseSpace(t) ==
  IF t = << >> THEN << >>
  ELSE IF Head(t) \in WhiteSpace
       THEN IF Len(t) >= 2 /\ t[2] \in WhiteSpace THEN CollapseSpace(Tail(t))
            ELSE <<" ">> \o CollapseSpace(Tail(t))
  ELSE <<Head(t)>> \o CollapseSpace(Tail(t))

stripHtml(html) == TrimChars(CollapseSpace(StripTags(html)))

\* p?.body?.data is truthy
HasData(p) == p # Null /\ p.data # Null /\ p.data.v # << >>

RECURSIVE findPart(_, _)
\* the first part of the type in depth-first order, Null when there is none
findPart(parts, mimeType) ==
  IF parts = << >> THEN Null
  ELSE LET p == Head(parts)
           nested == IF p.parts # << >> THEN findPart(p.parts, mimeType) ELSE Null
       IN IF p.mimeType = mimeType THEN p
          ELSE IF nested # Null THEN nested
          ELSE findPart(Tail(parts), mimeType)

extractBodyText(payload) ==
  IF payload = Null THEN << >>
  ELSE LET parts == payload.parts
           plain == findPart(parts, "text/plain")
           html == findPart(parts, "text/html")
           any == SelectSeq(parts, HasData)
       IN IF parts # << >> /\ HasData(plain) THEN decodeBase64Url(plain.data)
          ELSE IF parts # << >> /\ HasData(html) THEN stripHtml(decodeBase64Url(html.data))
          ELSE IF parts # << >> /\ any # << >> THEN decodeBase64Url(Head(any).data)
          ELSE IF HasData(payload) THEN decodeBase64Url(payload.data)
          ELSE << >>

(***************************************************************************)
(* The document store (Firestore), users/{uid}/emails.                     *)
(***************************************************************************)
\* docRef.get(): snap.exists and snap.data()
DocGet(st, d) ==
  IF d \in DOMAIN st THEN [exists |-> TRUE, data |-> st[d]]
  ELSE [exists |-> FALSE, data |-> Null]

\* docRef.set(val): creates or overwrites the whole document
DocSet(st, d, val) ==
  [k \in DOMAIN st \cup {d} |-> IF k = d THEN val ELSE st[k]]

\* docRef.update(upd): merges the given fields into the existing document
DocUpdate(st, d, upd) == [st EXCEPT ![d] = Merge(@, upd)]

\* mutant of DocRef: emailsRef.doc(), a document with a generated id
DocRefAuto(e) == 0 - (Cardinality(DOMAIN store) + 1)

\* emailsRef.doc(e.gmailId)
DocRef(e) == e.gmailId

(***************************************************************************)
(* Inputs of the model: what the network answers to a generation request.  *)
(***************************************************************************)
Http(body) == [kind |-> "http", ok |-> TRUE, status |-> 200, body |-> body]
HttpError(status, txt) ==
  [kind |-> "http", ok |-> FALSE, status |-> status, body |-> Str(txt)]
Answer(text) == Http([response |-> [t |-> "text", v |-> text]])
Wrapped(obj) == <<Tok("t"), Tok(" "), Tok("{"), Members(obj), Tok("}"), Tok(" "), Tok("t")>>

GoodTriage ==
  [category |-> Str("SPAM_OTHER"), urgency |-> Str("LOW"),
   confidence |-> Num(9), reply_draft |-> Str("No thanks.")]

\* model outputs that are JSON objects: two valid ones (the bounds of the
\* confidence range, one with an extra error key) and the malformed ones of
\* the schema-strictness property
TriageObjects == {
  GoodTriage,
  With(With(GoodTriage, "confidence", Num(10)), "error", Str("none")),
  With(GoodTriage, "category", Str("REFUND")),
  With(GoodTriage, "urgency", Str("URGENT")),
  With(GoodTriage, "confidence", Num(15)),
  With(GoodTriage, "confidence", Num(-1)),
  With(GoodTriage, "confidence", Str("0.9")),
  With(GoodTriage, "reply_draft", Str("")),
  [category |-> Str("SPAM_OTHER"), urgency |-> Str("LOW"), confidence |-> Num(0)] }

GenFailures == {
  [kind |-> "abort"],
  [kind |-> "neterr"],
  HttpError(500, "model not loaded"),
  Http(Null),
  Answer(<<Tok("t")>>),
  Answer(<<Tok("{"), Tok("t"), Tok("}")>>),
  Answer(<<Tok("}"), Tok("t"), Tok("{")>>) }

TriageNets == GenFailures \cup { Answer(Wrapped(o)) : o \in TriageObjects }

GoodSummary ==
  [title |-> Str("Freeze request"), summary |-> Str("Member asks for a freeze."),
   key_points |-> [t |-> "arr", v |-> <<Str("freeze")>>]]

SummaryNets == {
  [kind |-> "abort"],
  Answer(Wrapped(GoodSummary)),
  Answer(Wrapped(With(GoodSummary, "summary", Str("")))) }

\* req.user and req.body of a request
Users == {Null, [id |-> "u1"]}
Bodies == {<< >>}

(***************************************************************************)
(* src/server/routes.js: POST /emails/sync (lines 254-389)                 *)
(***************************************************************************)
SUMMARY_THRESHOLD == 900
TRIAGE_TIMEOUT == 60000
SUMMARY_TIMEOUT == 45000
DEFAULT_MAX_RESULTS == 20
MAX_MAX_RESULTS == 50

NoResp == [status |-> 0]
Json(status, body) == [status |-> status, body |-> body]

\* the router error handler (lines 485-488), reached through asyncHandler
ServerError(message) ==
  Json(500, [error |-> "Server error", details |-> message])

\* NaN and the booleans of a request body; a number of a body is Num(n)
\* with n in units
NaN == [t |-> "nan"]
Bool(b) == [t |-> "bool", v |-> b]

\* Number(x): numbers as they are, booleans 0 or 1, null 0, a string its
\* numeral (the blank string 0) or NaN, an object NaN
Number(x) ==
  CASE x.t = "num" -> x
    [] x.t = "bool" -> Num(IF x.v THEN 1 ELSE 0)
    [] x.t = "null" -> Num(0)
    [] x.t = "str" -> (CASE x.v \in {"", " "} -> Num(0)
                         [] x.v = "7" -> Num(7)
                         [] x.v = "1e3" -> Num(1000)
                         [] OTHER -> NaN)
    [] OTHER -> NaN

\* Math.min and Math.max: NaN when an argument is NaN
MathMin(a, b) == IF a = NaN \/ b = NaN THEN NaN ELSE IF a.v < b.v THEN a ELSE b
MathMax(a, b) == IF a = NaN \/ b = NaN THEN NaN ELSE IF a.v > b.v THEN a ELSE b

\* Math.max(1, Math.min(Number(req.body?.maxResults ?? 20), 50))
MaxResults(body) ==
  LET given == Field(body, "maxResults") IN
  MathMax(Num(1), MathMin(Number(IF given = Null THEN Num(DEFAULT_MAX_RESULTS) ELSE given),
                          Num(MAX_MAX_RESULTS)))

ZeroCounters == [created |-> 0, triaged |-> 0, summarized |-> 0, aiErrors |-> 0]

\* the success response (lines 379-387)
SyncResponse(fetched, c, duration) ==
  Json(200, [ok |-> TRUE, fetched |-> fetched, created |-> c.created,
             triaged |-> c.triaged, summarized |-> c.summarized,
             aiErrors |-> c.aiErrors, durationMs |-> duration])

\* the document written for a message that is not stored yet (lines 300-306)
NewDoc(e, t) ==
  Merge(e, [createdAt |-> t, updatedAt |-> t, ai |-> Null, aiSummary |-> Null])

\* mutant of Refresh: the update writes what the insert writes
RefreshAll(e, t) ==
  Merge(e, [createdAt |-> t, updatedAt |-> t, ai |-> Null, aiSummary |-> Null])

\* the fields refreshed on a stored message (lines 309-316)
Refresh(e, t) ==
  [isUnread |-> e.isUnread, labelIds |-> e.labelIds,
   cleanBodyText |-> e.cleanBodyText, snippet |-> e.snippet, updatedAt |-> t]

\* the fallback TriageResult (lines 365-372)
FallbackTriage(message, t) ==
  [category |-> Str("GENERAL_QUESTION"), urgency |-> Str("LOW"),
   confidence |-> Num(2),
   reply_draft |-> Str("Thanks for your email - we'll take a look and get back to you shortly."),
   error |-> Str(message), createdAt |-> Ms(t)]

\* the SummaryResult written after a failed summary (lines 338-344)
FallbackSummary(message, t) ==
  [title |-> Str(""), summary |-> Str(""), key_points |-> [t |-> "arr", v |-> << >>],
   error |-> Str(message), createdAt |-> Ms(t)]

\* mutant of SummaryNeeded: a text of exactly the threshold is summarized
SummaryNeededAtThreshold(d, e) ==
  d.aiSummary = Null /\ TextLen(pickMessage(e)) >= SUMMARY_THRESHOLD

\* !data.aiSummary && msg.length > SUMMARY_THRESHOLD (lines 323-324)
SummaryNeeded(d, e) ==
  d.aiSummary = Null /\ TextLen(pickMessage(e)) > SUMMARY_THRESHOLD

\* mutant of TriageNeeded: only an errored result is triaged again
TriageNeededWhenErrored(d) == d.ai # Null /\ Truthy(Field(d.ai, "error"))

\* mutant of TriageNeeded: the guard of the earlier router (line 79)
TriageNeededWhenMissing(d) == d.ai = Null

\* !data.ai || !data.ai.reply_draft || data.ai.error (line 350)
TriageNeeded(d) ==
  \/ d.ai = Null
  \/ ~Truthy(Field(d.ai, "reply_draft"))
  \/ Truthy(Field(d.ai, "error"))

Active(s) == pc[s] \notin {"idle", "done"}
Cur(s) == loc[s].emails[loc[s].idx]

\* gmailIds whose stored TriageResult is present and carries no error
DoneIds(st) ==
  { st[d].gmailId : d \in { k \in DOMAIN st : st[k].ai # Null /\ "error" \notin DOMAIN st[k].ai } }

\* the locals of a handler that is not running
NoLocals ==
  [emails |-> << >>, idx |-> 0, snapExists |-> FALSE, data |-> Null, tcall |-> 0,
   cnt |-> ZeroCounters, startedAt |-> 0, maxResults |-> Num(0)]

\* the handler ends with the response r
Ends(s, r) ==
  /\ pc' = [pc EXCEPT ![s] = "done"]
  /\ resp' = [resp EXCEPT ![s] = r]
  /\ loc' = [loc EXCEPT ![s] = NoLocals]
  /\ upserted' = [upserted EXCEPT ![s] = FALSE]

\* an exception escapes the handler: asyncHandler (lines 191-193) passes it
\* to the router error handler, which answers 500
Escapes(s, message) == Ends(s, ServerError(message))

\* the end of one iteration of the for..of loop with counters c: the next
\* docRef.get() is issued, or after the last message the success response
\* is sent (lines 295-297, 377-387)
NextMessage(s, c) ==
  IF loc[s].idx < Len(loc[s].emails)
  THEN /\ loc' = [loc EXCEPT ![s].idx = @ + 1, ![s].cnt = c]
       /\ pc' = [pc EXCEPT ![s] = "get"]
       /\ upserted' = [upserted EXCEPT ![s] = FALSE]
       /\ UNCHANGED resp
  ELSE Ends(s, SyncResponse(Len(loc[s].emails), c, now - loc[s].startedAt))

\* requireAuth, then the handler up to the health probe (lines 212-215, 257-274)
Start(s, user, body) ==
  /\ s \in world.slots
  /\ pc[s] = "idle"
  /\ IF user = Null
     THEN /\ Ends(s, Json(401, [error |-> "Not authenticated. Login at /auth/google"]))
          /\ UNCHANGED <<now, quiet, doneAtStart>>
     ELSE /\ now < world.runs
          /\ now' = now + 1
          /\ pc' = [pc EXCEPT ![s] = "health"]
          /\ loc' = [loc EXCEPT ![s].startedAt = now + 1,
                                ![s].maxResults = MaxResults(body)]
          /\ quiet' = [t \in Slots |->
                         IF t = s THEN \A o \in Slots : ~Active(o)
                         ELSE IF Active(t) THEN FALSE ELSE quiet[t]]
          /\ doneAtStart' = [doneAtStart EXCEPT ![s] = DoneIds(store)]
          /\ UNCHANGED <<resp, upserted>>
  /\ UNCHANGED <<call, gen, world, store>>

\* what the network does with the request of the health probe (GET
\* /api/tags): a response, a transport error, or the abort of the probe's
\* own timer
Probes == {Http(Null), HttpError(500, ""), [kind |-> "neterr"], [kind |-> "abort"]}

\* lines 195-207: res.ok, and false when fetch rejects
checkOllamaQuick(probe) == IF probe.kind = "http" THEN probe.ok ELSE FALSE

\* mutant of Health: the result of the probe is not looked at
HealthIgnored(s, ollamaOk) ==
  /\ pc[s] = "health"
  /\ pc' = [pc EXCEPT ![s] = "fetch"]
  /\ UNCHANGED <<loc, resp, upserted>>
  /\ UNCHANGED <<call, gen, world, store, now, quiet, doneAtStart>>

\* checkOllamaQuick returns (lines 195-207, 274-282)
Health(s, ollamaOk) ==
  /\ pc[s] = "health"
  /\ IF ollamaOk
     THEN /\ pc' = [pc EXCEPT ![s] = "fetch"]
          /\ UNCHANGED <<loc, resp, upserted>>
     ELSE Ends(s, Json(503, [error |-> "Ollama not reachable",
                             details |-> "Cannot reach Ollama"]))
  /\ UNCHANGED <<call, gen, world, store, now, quiet, doneAtStart>>

\* mutant of FetchFails: a failed fetch counts as an empty mailbox
FetchFailsQuietly(s) ==
  /\ pc[s] = "fetch"
  /\ Ends(s, SyncResponse(0, ZeroCounters, now - loc[s].startedAt))
  /\ UNCHANGED <<call, gen, world, store, now, quiet, doneAtStart>>

\* fetchLatestEmails throws (lines 282-286)
FetchFails(s) ==
  /\ pc[s] = "fetch"
  /\ Escapes(s, "gmail request failed")
  /\ UNCHANGED <<call, gen, world, store, now, quiet, doneAtStart>>

\* fetchLatestEmails returns; the loop starts (lines 282-297)
Fetch(s, result) ==
  /\ pc[s] = "fetch"
  /\ quiet' = [quiet EXCEPT ![s] =
                 @ /\ \A i \in 1..Len(result) :
                        \A d \in DOMAIN store : store[d].gmailId # result[i].gmailId]
  /\ IF result = << >>
     THEN Ends(s, SyncResponse(0, ZeroCounters, now - loc[s].startedAt))
     ELSE /\ pc' = [pc EXCEPT ![s] = "get"]
          /\ loc' = [loc EXCEPT ![s].emails = result, ![s].idx = 1,
                                ![s].cnt = ZeroCounters]
          /\ upserted' = [upserted EXCEPT ![s] = FALSE]
          /\ UNCHANGED resp
  /\ UNCHANGED <<call, gen, world, store, now, doneAtStart>>

\* a document-store call of the loop rejects (lines 297, 300, 309, 319)
StoreFails(s) ==
  /\ pc[s] \in {"get", "upsert", "reget"}
  /\ Escapes(s, "store unavailable")
  /\ UNCHANGED <<call, gen, world, store, now, quiet, doneAtStart>>

\* mutant of Get: a stored message is not refreshed; the handler goes on to
\* the second read at once
GetSkipsRefresh(s) ==
  /\ pc[s] = "get"
  /\ loc' = [loc EXCEPT ![s].snapExists = DocGet(store, DocRef(Cur(s))).exists,
                        ![s].tcall = now]
  /\ pc' = [pc EXCEPT ![s] =
              IF DocGet(store, DocRef(Cur(s))).exists THEN "reget" ELSE "upsert"]
  /\ UNCHANGED <<call, gen, world, store, now, resp, quiet, doneAtStart, upserted>>

\* docRef.get() returns; set or update is issued (lines 297-316)
Get(s) ==
  /\ pc[s] = "get"
  /\ loc' = [loc EXCEPT ![s].snapExists = DocGet(store, DocRef(Cur(s))).exists,
                        ![s].tcall = now]
  /\ pc' = [pc EXCEPT ![s] = "upsert"]
  /\ UNCHANGED <<call, gen, world, store, now, resp, quiet, doneAtStart, upserted>>

\* the set or the update is applied and returns (lines 299-319)
Upsert(s) ==
  /\ pc[s] = "upsert"
  /\ IF ~loc[s].snapExists
     THEN /\ store' = DocSet(store, DocRef(Cur(s)), NewDoc(Cur(s), loc[s].tcall))
          /\ loc' = [loc EXCEPT ![s].cnt.created = @ + 1]
          /\ pc' = [pc EXCEPT ![s] = "reget"]
          /\ upserted' = [upserted EXCEPT ![s] = TRUE]
          /\ UNCHANGED resp
     ELSE IF DocRef(Cur(s)) \in DOMAIN store
     THEN /\ store' = DocUpdate(store, DocRef(Cur(s)), Refresh(Cur(s), loc[s].tcall))
          /\ pc' = [pc EXCEPT ![s] = "reget"]
          /\ upserted' = [upserted EXCEPT ![s] = TRUE]
          /\ UNCHANGED <<loc, resp>>
     ELSE /\ Escapes(s, "NOT_FOUND")
          /\ UNCHANGED store
  /\ UNCHANGED <<call, gen, world, now, quiet, doneAtStart>>

\* the second docRef.get() returns; the summary guard (lines 319-332)
Reget(s) ==
  /\ pc[s] = "reget"
  /\ LET after == DocGet(store, DocRef(Cur(s))) IN
     IF after.exists
     THEN /\ loc' = [loc EXCEPT ![s].data = after.data]
          /\ pc' = [pc EXCEPT ![s] =
                      IF SummaryNeeded(after.data, Cur(s)) THEN "summarize" ELSE "guard"]
          /\ UNCHANGED <<resp, upserted>>
     ELSE \* after.data() is undefined: data.aiSummary throws a TypeError
          Escapes(s, "Cannot read properties of undefined")
  /\ UNCHANGED <<call, gen, world, store, now, quiet, doneAtStart>>

\* mutant of Summarize: the catch block does not count the failed summary
SummarizeFailureUncounted(s, net, storeOk, fallbackOk) ==
  /\ pc[s] = "summarize"
  /\ LET sum == summarizeEmail(net, SUMMARY_TIMEOUT)
         here == DocRef(Cur(s)) \in DOMAIN store
         caught == IF sum.ok THEN "store unavailable" ELSE sum.error
     IN IF sum.ok /\ storeOk /\ here
        THEN /\ store' = DocUpdate(store, DocRef(Cur(s)),
                                   [aiSummary |-> With(sum.value, "createdAt", Ms(now))])
             /\ loc' = [loc EXCEPT ![s].cnt.summarized = @ + 1]
             /\ pc' = [pc EXCEPT ![s] = "guard"]
             /\ UNCHANGED <<resp, upserted>>
        ELSE IF fallbackOk /\ here
        THEN /\ store' = DocUpdate(store, DocRef(Cur(s)),
                                   [aiSummary |-> FallbackSummary(caught, now)])
             /\ pc' = [pc EXCEPT ![s] = "guard"]
             /\ UNCHANGED <<loc, resp, upserted>>
        ELSE /\ Escapes(s, "store unavailable")
             /\ UNCHANGED store
  /\ UNCHANGED <<call, gen, world, now, quiet, doneAtStart>>

\* mutant of Summarize: a failed summary ends the work on the message
SummarizeOrSkip(s, net, storeOk, fallbackOk) ==
  /\ pc[s] = "summarize"
  /\ LET sum == summarizeEmail(net, SUMMARY_TIMEOUT)
         here == DocRef(Cur(s)) \in DOMAIN store
         caught == IF sum.ok THEN "store unavailable" ELSE sum.error
     IN IF sum.ok /\ storeOk /\ here
        THEN /\ store' = DocUpdate(store, DocRef(Cur(s)),
                                   [aiSummary |-> With(sum.value, "createdAt", Ms(now))])
             /\ loc' = [loc EXCEPT ![s].cnt.summarized = @ + 1]
             /\ pc' = [pc EXCEPT ![s] = "guard"]
             /\ UNCHANGED <<resp, upserted>>
        ELSE IF fallbackOk /\ here
        THEN /\ store' = DocUpdate(store, DocRef(Cur(s)),
                                   [aiSummary |-> FallbackSummary(caught, now)])
             /\ NextMessage(s, [loc[s].cnt EXCEPT !.aiErrors = @ + 1])
        ELSE /\ Escapes(s, "store unavailable")
             /\ UNCHANGED store
  /\ UNCHANGED <<call, gen, world, now, quiet, doneAtStart>>

\* summarizeEmail settles and the aiSummary update is applied (lines
\* 325-347).  storeOk: the update of line 333 is accepted; when the call or
\* that update fails, the catch block writes the empty summary, and
\* fallbackOk: the update of line 337 is accepted.
Summarize(s, net, storeOk, fallbackOk) ==
  /\ pc[s] = "summarize"
  /\ LET sum == summarizeEmail(net, SUMMARY_TIMEOUT)
         here == DocRef(Cur(s)) \in DOMAIN store
         caught == IF sum.ok THEN "store unavailable" ELSE sum.error
     IN IF sum.ok /\ storeOk /\ here
        THEN /\ store' = DocUpdate(store, DocRef(Cur(s)),
                                   [aiSummary |-> With(sum.value, "createdAt", Ms(now))])
             /\ loc' = [loc EXCEPT ![s].cnt.summarized = @ + 1]
             /\ pc' = [pc EXCEPT ![s] = "guard"]
             /\ UNCHANGED <<resp, upserted>>
        ELSE IF fallbackOk /\ here
        THEN /\ store' = DocUpdate(store, DocRef(Cur(s)),
                                   [aiSummary |-> FallbackSummary(caught, now)])
             /\ loc' = [loc EXCEPT ![s].cnt.aiErrors = @ + 1]
             /\ pc' = [pc EXCEPT ![s] = "guard"]
             /\ UNCHANGED <<resp, upserted>>
        ELSE /\ Escapes(s, "store unavailable")
             /\ UNCHANGED store
  /\ UNCHANGED <<call, gen, world, now, quiet, doneAtStart>>

\* the triage guard on the data read back (lines 349-358)
Guard(s) ==
  /\ pc[s] = "guard"
  /\ IF TriageNeeded(loc[s].data)
     THEN /\ pc' = [pc EXCEPT ![s] = "triage"]
          /\ UNCHANGED <<loc, resp, upserted>>
     ELSE NextMessage(s, loc[s].cnt)
  /\ UNCHANGED <<call, gen, world, store, now, quiet, doneAtStart>>

\* mutant of Triage: no try/catch around triageEmail, as in the first router
\* of the file (lines 568-583); a failed triage escapes the handler
TriageUncaught(s, net, storeOk, fallbackOk) ==
  /\ pc[s] = "triage"
  /\ LET triage == triageEmail(net, TRIAGE_TIMEOUT) IN
     IF triage.ok /\ storeOk /\ DocRef(Cur(s)) \in DOMAIN store
     THEN /\ store' = DocUpdate(store, DocRef(Cur(s)),
                                [ai |-> With(triage.value, "createdAt", Ms(now))])
          /\ NextMessage(s, [loc[s].cnt EXCEPT !.triaged = @ + 1])
     ELSE /\ Escapes(s, IF triage.ok THEN "store unavailable" ELSE triage.error)
          /\ UNCHANGED store
  /\ UNCHANGED <<call, gen, world, now, quiet, doneAtStart>>

\* mutant of Triage: the catch block does not count the fallback as triaged
TriageFallbackUncounted(s, net, storeOk, fallbackOk) ==
  /\ pc[s] = "triage"
  /\ LET triage == triageEmail(net, TRIAGE_TIMEOUT)
         here == DocRef(Cur(s)) \in DOMAIN store
         caught == IF triage.ok THEN "store unavailable" ELSE triage.error
     IN IF triage.ok /\ storeOk /\ here
        THEN /\ store' = DocUpdate(store, DocRef(Cur(s)),
                                   [ai |-> With(triage.value, "createdAt", Ms(now))])
             /\ NextMessage(s, [loc[s].cnt EXCEPT !.triaged = @ + 1])
        ELSE IF fallbackOk /\ here
        THEN /\ store' = DocUpdate(store, DocRef(Cur(s)),
                                   [ai |-> FallbackTriage(caught, now)])
             /\ NextMessage(s, [loc[s].cnt EXCEPT !.aiErrors = @ + 1])
        ELSE /\ Escapes(s, "store unavailable")
             /\ UNCHANGED store
  /\ UNCHANGED <<call, gen, world, now, quiet, doneAtStart>>

\* triageEmail settles and the ai update is applied (lines 351-377).
\* storeOk: the update of line 360 is accepted; when the call or that update
\* fails, the catch block writes the fallback, and fallbackOk: the update of
\* line 364 is accepted.
Triage(s, net, storeOk, fallbackOk) ==
  /\ pc[s] = "triage"
  /\ LET triage == triageEmail(net, TRIAGE_TIMEOUT)
         here == DocRef(Cur(s)) \in DOMAIN store
         caught == IF triage.ok THEN "store unavailable" ELSE triage.error
     IN IF triage.ok /\ storeOk /\ here
        THEN /\ store' = DocUpdate(store, DocRef(Cur(s)),
                                   [ai |-> With(triage.value, "createdAt", Ms(now))])
             /\ NextMessage(s, [loc[s].cnt EXCEPT !.triaged = @ + 1])
        ELSE IF fallbackOk /\ here
        THEN /\ store' = DocUpdate(store, DocRef(Cur(s)),
                                   [ai |-> FallbackTriage(caught, now)])
             /\ NextMessage(s, [loc[s].cnt EXCEPT !.triaged = @ + 1,
                                                  !.aiErrors = @ + 1])
        ELSE /\ Escapes(s, "store unavailable")
             /\ UNCHANGED store
  /\ UNCHANGED <<call, gen, world, now, quiet, doneAtStart>>

\* the response has been delivered; the slot takes the next request
Recycle(s) ==
  /\ pc[s] = "done"
  /\ pc' = [pc EXCEPT ![s] = "idle"]
  /\ resp' = [resp EXCEPT ![s] = NoResp]
  /\ quiet' = [quiet EXCEPT ![s] = FALSE]
  /\ doneAtStart' = [doneAtStart EXCEPT ![s] = {}]
  /\ UNCHANGED <<call, gen, world, store, now, loc, upserted>>

(***************************************************************************)
(* src/server/ai.js: one call of triageEmail or summarizeEmail, step by    *)
(* step.  The caller is suspended at `await ollamaGenerate`, which is      *)
(* suspended at `await fetch` (at = "fetch"), at `await res.text()` of a   *)
(* non-ok response (at = "text") or at `await res.json()` (at = "json").   *)
(* A settling step runs ollamaGenerate to its return or throw and then the *)
(* rest of the caller, which has no further await.                         *)
(***************************************************************************)
AiFunctions == {"triageEmail", "summarizeEmail"}

\* the timeoutMs the routes pass (routes.js lines 240, 330, 356)
TimeoutOf(fn) == IF fn = "triageEmail" THEN TRIAGE_TIMEOUT ELSE SUMMARY_TIMEOUT

Idle == [fn |-> "none"]

NoCall ==
  [fn |-> "none", at |-> "idle", timeoutMs |-> 0, timer |-> "unset",
   requests |-> 0, res |-> Null, text |-> Null, json |-> Null, result |-> Null]

\* triageEmail / summarizeEmail up to `await ollamaGenerate`, and
\* ollamaGenerate up to `await fetch`: the timer is set and the one request
\* is issued (lines 90-106, 215-221)
CallAi(fn) ==
  /\ gen.at \in {"idle", "returned"}
  /\ gen' = [NoCall EXCEPT !.fn = fn, !.at = "fetch", !.timeoutMs = TimeoutOf(fn),
                           !.timer = "armed", !.requests = 1]
  /\ UNCHANGED <<call, world, store, now, pc, loc, resp, quiet, doneAtStart, upserted>>

\* the timer set at line 92 fires: controller.abort()
Deadline ==
  /\ gen.at \in {"fetch", "text", "json"}
  /\ gen.timer = "armed"
  /\ gen' = [gen EXCEPT !.timer = "fired"]
  /\ UNCHANGED <<call, world, store, now, pc, loc, resp, quiet, doneAtStart, upserted>>

\* ollamaGenerate settles on what the network did (lines 108-120, the
\* finally clears a timer that has not fired) and the caller runs to its end
\* (lines 223-238, 277-282)
Settles(net) ==
  LET text == ollamaGenerate(net, gen.timeoutMs) IN
  gen' = [gen EXCEPT
            !.at = "returned",
            !.timer = IF @ = "armed" THEN "cleared" ELSE @,
            !.text = text,
            !.json = IF text.ok THEN extractJson(text.value) ELSE Null,
            !.result = IF gen.fn = "triageEmail"
                       THEN triageEmail(net, gen.timeoutMs)
                       ELSE summarizeEmail(net, gen.timeoutMs)]

\* mutant of FetchRejects: a transport error is retried with a second request
FetchRejectsRetried ==
  /\ gen.at = "fetch"
  /\ IF gen.timer = "fired" \/ gen.requests > 1
     THEN Settles(IF gen.timer = "fired" THEN [kind |-> "abort"] ELSE [kind |-> "neterr"])
     ELSE gen' = [gen EXCEPT !.requests = @ + 1]
  /\ UNCHANGED <<call, world, store, now, pc, loc, resp, quiet, doneAtStart, upserted>>

\* the pending fetch rejects: with an AbortError once the timer has fired,
\* with a transport error otherwise (lines 96, 115-117)
FetchRejects ==
  /\ gen.at = "fetch"
  /\ Settles(IF gen.timer = "fired" THEN [kind |-> "abort"] ELSE [kind |-> "neterr"])
  /\ UNCHANGED <<call, world, store, now, pc, loc, resp, quiet, doneAtStart, upserted>>

\* the response headers arrive; the body read is started (lines 96-113)
FetchResponds(ok, status) ==
  /\ gen.at = "fetch"
  /\ gen.timer = "armed"
  /\ gen' = [gen EXCEPT !.res = [ok |-> ok, status |-> status],
                        !.at = IF ok THEN "json" ELSE "text"]
  /\ UNCHANGED <<call, world, store, now, pc, loc, resp, quiet, doneAtStart, upserted>>

\* the body has been read: res.text() or res.json() resolves (lines 109, 113)
BodyRead(body) ==
  /\ gen.at \in {"text", "json"}
  /\ gen.timer = "armed"
  /\ Settles([kind |-> "http", ok |-> gen.res.ok, status |-> gen.res.status,
              body |-> body])
  /\ UNCHANGED <<call, world, store, now, pc, loc, resp, quiet, doneAtStart, upserted>>

\* the body read rejects (the request was aborted, or the stream broke) and
\* the .catch() of line 109 or 113 replaces the rejection by "" or {}
BodyRejects ==
  /\ gen.at \in {"text", "json"}
  /\ Settles([kind |-> "http", ok |-> gen.res.ok, status |-> gen.res.status,
              body |-> Null])
  /\ UNCHANGED <<call, world, store, now, pc, loc, resp, quiet, doneAtStart, upserted>>

(***************************************************************************)
(* Specifications.                                                         *)
(***************************************************************************)
Ids(n) == 1..n

InitSlots ==
  /\ store = << >>
  /\ now = 0
  /\ pc = [s \in Slots |-> "idle"]
  /\ loc = [s \in Slots |-> NoLocals]
  /\ resp = [s \in Slots |-> NoResp]
  /\ quiet = [s \in Slots |-> FALSE]
  /\ doneAtStart = [s \in Slots |-> {}]
  /\ upserted = [s \in Slots |-> FALSE]
  /\ gen = NoCall
  /\ call = Idle

World(box, sl, runs, unread, tri, sum) ==
  [inbox |-> box, slots |-> sl, runs |-> runs, unread |-> unread,
   triageNets |-> tri, summaryNets |-> sum]

\* the model times out or answers well
FewTriageNets == {[kind |-> "abort"], Answer(Wrapped(GoodTriage))}
FewSummaryNets == {[kind |-> "abort"], Answer(Wrapped(GoodSummary))}

\* overlapping sync requests of one user
Init ==
  /\ world \in { World(box, Slots, MaxNow, {TRUE}, FewTriageNets, FewSummaryNets) :
                   box \in [Ids(NumMsgs) -> Contents] }
  /\ InitSlots

\* one sync request at a time:
\*  - repeated syncs of one message, with every answer of the network
\*  - one sync of a batch of two, with every answer of the network
\*  - one sync of a larger batch of short messages
InitSeq ==
  /\ world \in
       { World(box, {1}, SeqRuns, BOOLEAN, TriageNets, SummaryNets) :
           box \in [Ids(1) -> Contents] }
       \cup { World(box, {1}, 1, BOOLEAN, TriageNets, SummaryNets) :
                box \in [Ids(2) -> Contents] }
       \cup { World([g \in Ids(SeqMsgs) |-> ShortMail], {1}, 1, {TRUE},
                    FewTriageNets, FewSummaryNets) }
  /\ InitSlots

Next ==
  \/ \E s \in Slots, user \in Users, body \in Bodies : Start(s, user, body)
  \/ \E s \in Slots, probe \in Probes : Health(s, checkOllamaQuick(probe))
  \/ \E s \in Slots : FetchFails(s)
  \/ \E s \in Slots :
       /\ loc[s].maxResults # NaN
       /\ \E result \in FetchResults(world.inbox, world.unread, loc[s].maxResults.v) :
            Fetch(s, result)
  \/ \E s \in Slots : StoreFails(s)
  \/ \E s \in Slots : Get(s)
  \/ \E s \in Slots : Upsert(s)
  \/ \E s \in Slots : Reget(s)
  \/ \E s \in Slots, net \in world.summaryNets, storeOk, fallbackOk \in BOOLEAN :
       Summarize(s, net, storeOk, fallbackOk)
  \/ \E s \in Slots : Guard(s)
  \/ \E s \in Slots, net \in world.triageNets, storeOk, fallbackOk \in BOOLEAN :
       Triage(s, net, storeOk, fallbackOk)
  \/ \E s \in Slots : Recycle(s)

Spec == Init /\ [][Next]_vars
SpecSeq == InitSeq /\ [][Next]_vars

\* JSON objects a model output can hold: those of the sync, a triage with
\* confidence 0, one with a null category, and summaries
AiObjects ==
  TriageObjects \cup
    { With(GoodTriage, "confidence", Num(0)),
      With(GoodTriage, "category", Null),
      GoodSummary,
      With(GoodSummary, "summary", Str("")) }

\* every text of at most MaxRaw tokens, and every object with commentary
\* before and after it
RawAlphabet ==
  {Tok("{"), Tok("}"), Tok(" "), Tok("t"), Members(GoodTriage), Members(GoodSummary)}
RawTexts ==
  UNION { [1..n -> RawAlphabet] : n \in 0..MaxRaw } \cup { Wrapped(o) : o \in AiObjects }

\* what res.json() and res.text() can resolve to
JsonBodies == {<< >>} \cup { [response |-> [t |-> "text", v |-> raw]] : raw \in RawTexts }
TextBodies == {Str(""), Str("model not loaded")}
Statuses == {<<TRUE, 200>>, <<FALSE, 404>>, <<FALSE, 500>>}

\* calls of triageEmail and summarizeEmail on their own, one after another
InitAi ==
  /\ world = World(<< >>, {}, 0, {}, {}, {})
  /\ InitSlots

NextAi ==
  \/ \E fn \in AiFunctions : CallAi(fn)
  \/ Deadline
  \/ FetchRejects
  \/ \E st \in Statuses : FetchResponds(st[1], st[2])
  \/ \E body \in (IF gen.at = "json" THEN JsonBodies ELSE TextBodies) : BodyRead(body)
  \/ BodyRejects

SpecAi == InitAi /\ [][NextAi]_vars

(***************************************************************************)
(* Properties.                                                             *)
(***************************************************************************)
HasError(ai) == ai # Null /\ "error" \in DOMAIN ai
LoopPcs == {"get", "upsert", "reget", "summarize", "guard", "triage"}
MutableFields == {"isUnread", "labelIds", "cleanBodyText", "snippet", "updatedAt"}

\* C1: after any sequence of sync requests, sequential or overlapping, the
\* email collection holds at most one document per gmailId.
C1_OneRecordPerGmailId ==
  \A d1, d2 \in DOMAIN store :
    store[d1].gmailId = store[d2].gmailId => d1 = d2

\* a message was fetched again and refreshed while two requests overlap
C1_Witness ==
  /\ \A s \in Slots : Active(s)
  /\ \E d \in DOMAIN store : store[d].updatedAt > store[d].createdAt

\* C2: when the sync finds the document of a fetched message, the upsert
\* step changes no field of it other than isUnread, labelIds, cleanBodyText,
\* snippet and updatedAt (subject, fromEmail, bodyText, createdAt, ai and
\* aiSummary stay as they are), and it changes no other document.
C2_RefreshFrame ==
  [][\A s \in Slots :
       (pc[s] = "upsert" /\ loc[s].snapExists /\ pc'[s] = "reget") =>
         LET d == DocRef(Cur(s)) IN
         /\ DOMAIN store' = DOMAIN store
         /\ \A o \in DOMAIN store : o # d => store'[o] = store[o]
         /\ DOMAIN store'[d] = DOMAIN store[d]
         /\ \A k \in DOMAIN store[d] \ MutableFields : store'[d][k] = store[d][k]
    ]_vars

\* a stored message that carries a TriageResult has just been refreshed
C2_Witness ==
  \E s \in Slots :
    /\ pc[s] = "reget" /\ loc[s].snapExists
    /\ store[DocRef(Cur(s))].ai # Null
    /\ store[DocRef(Cur(s))].updatedAt > store[DocRef(Cur(s))].createdAt
    /\ ~store[DocRef(Cur(s))].isUnread

\* C3: a sync request that started when a message's stored TriageResult was
\* present and error-free never calls triageEmail for that message.
C3_NoDuplicateSpend ==
  \A s \in Slots :
    pc[s] = "triage" => Cur(s).gmailId \notin doneAtStart[s]

C5_StoredTriageInSchema ==
  \A d \in DOMAIN store :
    LET ai == store[d].ai IN
    ai # Null =>
      /\ {"category", "urgency", "confidence", "reply_draft"} \subseteq DOMAIN ai
      /\ IsStr(ai.category) /\ ai.category.v \in Categories
      /\ IsStr(ai.urgency) /\ ai.urgency.v \in Urgencies
      /\ IsNum(ai.confidence) /\ ai.confidence.v >= 0 /\ ai.confidence.v <= 10
      /\ IsStr(ai.reply_draft) /\ ai.reply_draft.v # ""

\* the model answered outside the schema and the fallback was stored
C5_Witness ==
  \E d \in DOMAIN store :
    /\ HasError(store[d].ai)
    /\ store[d].ai.error = Str("Ollama JSON failed schema validation: issues")

\* the aiErrors counter of request s after a step
ErrorsAfter(s) ==
  IF pc'[s] = "done" THEN resp'[s].body.aiErrors ELSE loc'[s].cnt.aiErrors

C7_FirstRunCounters ==
  [][\A s \in Slots :
       ( /\ pc[s] \in {"guard", "triage"} /\ pc'[s] = "done"
         /\ resp'[s].status = 200
         /\ quiet[s]
         /\ \A i \in 1..Len(loc[s].emails) :
              TextLen(pickMessage(loc[s].emails[i])) <= SUMMARY_THRESHOLD ) =>
         LET n == Len(loc[s].emails)
             k == Cardinality({ i \in 1..n : HasError(store'[DocRef(loc[s].emails[i])].ai) })
             b == resp'[s].body
         IN b.fetched = n /\ b.created = n /\ b.triaged = n /\ b.aiErrors = k
    ]_vars

\* three messages were synced for the first time and the triage of the
\* second one timed out
C7_Witness ==
  \E s \in Slots :
    /\ pc[s] = "done" /\ resp[s].status = 200 /\ quiet[s]
    /\ resp[s].body.fetched = 3 /\ resp[s].body.created = 3
    /\ resp[s].body.triaged = 3 /\ resp[s].body.aiErrors = 1
    /\ DOMAIN store = {1, 2, 3}
    /\ ~HasError(store[1].ai) /\ ~HasError(store[3].ai)
    /\ HasError(store[2].ai)
    /\ store[2].ai.error = Str("Ollama timeout after 60000ms")

\* C8: a rejected store read or write inside the per-message loop does not
\* abort the sync: once in the loop, a request ends only with the success
\* response.
C8_LoopNeverAborts ==
  [][\A s \in Slots :
       (pc[s] \in LoopPcs /\ pc'[s] = "done") => resp'[s].status = 200
    ]_vars

\* C9: every sync whose health check and mail fetch succeeded ends with a
\* response that carries fetched, created, triaged, summarized and aiErrors.
C9_ResponseAlwaysHasCounters ==
  \A s \in Slots :
    ( /\ pc[s] = "done"
      /\ resp[s].status \notin {401, 503}
      /\ resp[s] # ServerError("gmail request failed") ) =>
      {"fetched", "created", "triaged", "summarized", "aiErrors"}
        \subseteq DOMAIN resp[s].body

\* C10: within one sync, the upsert of a message has completed before a
\* summarize or triage call for that message is started.
C10_UpsertBeforeAi ==
  \A s \in Slots :
    pc[s] \in {"summarize", "guard", "triage"} => upserted[s]

\* a triage call is in flight for a message this sync found stored and
\* refreshed, while another request is in flight
C10_Witness ==
  \E s \in Slots :
    /\ pc[s] = "triage" /\ loc[s].snapExists /\ upserted[s]
    /\ \E o \in Slots \ {s} : Active(o)

Returned == gen.at = "returned"

\* msg.startsWith(pre), msg.endsWith(post)
HasPrefix(msg, pre) == Len(msg) >= Len(pre) /\ SubSeq(msg, 1, Len(pre)) = pre
HasSuffix(msg, post) ==
  Len(msg) >= Len(post) /\ SubSeq(msg, Len(msg) - Len(post) + 1, Len(msg)) = post

\* C11: whenever the timeoutMs timer of an ollamaGenerate call fires before
\* the call has returned, while it awaits the response headers or while it
\* reads the response body, the call fails with the timeout failure; it does
\* not return a value and does not fail with another failure.
C11_DeadlineMeansTimeout ==
  (Returned /\ gen.timer = "fired") =>
    gen.text = Throw(TimeoutMessage(gen.timeoutMs))

\* C12: after a non-success HTTP response ollamaGenerate fails with a
\* failure that carries the status and the body excerpt and that is not of
\* the form used for transport errors ("Ollama request failed: ...").
C12_RemoteErrorIsDistinct ==
  (Returned /\ gen.res # Null /\ ~gen.res.ok) =>
    /\ ~gen.text.ok
    /\ \E txt \in {"", "model not loaded"} :
         HasSuffix(gen.text.error,
                   "Ollama error " \o ToString(gen.res.status) \o ": " \o txt)
    /\ ~HasPrefix(gen.text.error, RequestFailed(""))

\* C13: an invocation of ollamaGenerate issues exactly one HTTP request,
\* whatever the outcome, and so does each call of triageEmail and of
\* summarizeEmail.
C13_OneRequestPerCall ==
  gen.fn \in AiFunctions => gen.requests = 1

\* a call of triageEmail has failed on a transport error after one request
C13_Witness ==
  /\ Returned /\ gen.fn = "triageEmail"
  /\ gen.result = Throw(RequestFailed("fetch failed"))
  /\ gen.requests = 1

\* positions of the character c in a text
Positions(text, c) == { i \in 1..Len(text) : text[i].c = c }
Least(S) == CHOOSE m \in S : \A n \in S : m <= n
Greatest(S) == CHOOSE m \in S : \A n \in S : m >= n

\* C14: extractJson fails with the no-JSON failure when the text has no '{'
\* or no '}'; otherwise it returns what the substring from the first '{' to
\* the last '}' parses to, and fails with the malformed-JSON failure when
\* that substring does not parse, as when the last '}' precedes the first
\* '{'; what stands before the first '{' and after the last '}' does not
\* change the result.
C14_ExtractJson ==
  (Returned /\ gen.text # Null /\ gen.text.ok) =>
    LET text == gen.text.value
        opens == Positions(text, "{")
        closes == Positions(text, "}")
    IN IF opens = {} \/ closes = {}
       THEN gen.json = Throw("Model did not return JSON (no braces found).")
       ELSE LET inner == SubSeq(text, Least(opens), Greatest(closes)) IN
            /\ JSONparse(inner).ok => gen.json = Ret(JSONparse(inner).value)
            /\ ~JSONparse(inner).ok => gen.json = Throw("Model returned malformed JSON.")
            /\ Greatest(closes) < Least(opens) =>
                 gen.json = Throw("Model returned malformed JSON.")
            /\ Greatest(closes) > Least(opens) => gen.json = extractJson(inner)

\* the model wrote commentary before and after the object, and it was parsed
C14_Witness ==
  /\ Returned /\ gen.text # Null /\ gen.text.ok
  /\ gen.json = Ret(GoodTriage)
  /\ Len(gen.text.value) > 3
  /\ Head(gen.text.value) = Tok("t")
  /\ gen.text.value[Len(gen.text.value)] = Tok("t")

Validated(ai) == ai # Null /\ ~HasError(ai)

\* C16: under any interleaving of sync requests, once the ai of a record is
\* a validated, error-free TriageResult, no step sets it back to null or
\* replaces it with another value.
C16_ValidatedAiIsKept ==
  [][\A d \in DOMAIN store :
       Validated(store[d].ai) =>
         (d \in DOMAIN store' /\ store'[d].ai = store[d].ai)
    ]_vars

\* request s has inserted the message it is working on
Inserted(s) == pc[s] \in LoopPcs /\ upserted[s] /\ ~loc[s].snapExists

\* C17: two overlapping sync requests that fetched the same unstored message
\* do not both insert it: at most one of them takes the insert path and
\* counts the message in created.
C17_SingleInsert ==
  \A s, o \in Slots :
    (s # o /\ Inserted(s) /\ Inserted(o)) => Cur(s).gmailId # Cur(o).gmailId

\* the 503 response of the health short-circuit (lines 276-279)
Unreachable ==
  Json(503, [error |-> "Ollama not reachable", details |-> "Cannot reach Ollama"])

\* C18: a step in which the health probe of a sync request fails (non-ok
\* response, transport error or probe timeout) ends the request with the 503
\* 'Ollama not reachable' response; it leaves the store as it is, and the
\* request makes no further step (no mail fetch, no store call, no
\* generation call).
C18_HealthShortCircuit ==
  [][\A s \in Slots, probe \in Probes :
       (~checkOllamaQuick(probe) /\ Health(s, checkOllamaQuick(probe))) =>
         /\ pc'[s] = "done"
         /\ resp'[s] = Unreachable
         /\ loc'[s] = NoLocals
         /\ store' = store
    ]_vars

\* a sync found the engine unreachable while a message of an earlier sync
\* is stored; it answered 503 and the record is as it was written
C18_Witness ==
  \E s \in Slots :
    /\ pc[s] = "done" /\ resp[s] = Unreachable
    /\ \E d \in DOMAIN store : store[d].updatedAt = store[d].createdAt /\ store[d].createdAt < now

\* C19: whenever a triage attempt fails, the record's ai afterwards is the
\* fixed fallback (GENERAL_QUESTION, LOW, 0.2, the generic reply, error set
\* to the failure's message); it is not left null.
C19_FailedTriageLeavesFallback ==
  [][\A s \in { t \in Slots : pc[t] = "triage" /\ pc'[t] # "triage" },
        net \in world.triageNets, storeOk, fallbackOk \in BOOLEAN :
       (~triageEmail(net, TRIAGE_TIMEOUT).ok /\ Triage(s, net, storeOk, fallbackOk)) =>
         LET ai == store'[DocRef(Cur(s))].ai IN
         /\ ai # Null
         /\ ai = FallbackTriage(triageEmail(net, TRIAGE_TIMEOUT).error, now)
    ]_vars

\* C20: the TriageResult a triage step writes carries an error field if and
\* only if the catch block wrote it; a result written after a successful
\* triage has no error field, also when the model's JSON had an error key.
C20_ErrorIffFallback ==
  [][\A s \in { t \in Slots : pc[t] = "triage" /\ pc'[t] # "triage" },
        net \in world.triageNets, storeOk, fallbackOk \in BOOLEAN :
       (Triage(s, net, storeOk, fallbackOk) /\ resp'[s].status # 500) =>
         LET ai == store'[DocRef(Cur(s))].ai
             succeeded == triageEmail(net, TRIAGE_TIMEOUT).ok /\ storeOk
         IN /\ ai # Null
            /\ HasError(ai) <=> ~succeeded
            /\ succeeded =>
                 DOMAIN ai = {"category", "urgency", "confidence", "reply_draft", "createdAt"}
            /\ ~succeeded => ai.confidence = Num(2) /\ IsStr(ai.error) /\ ai.error.v # ""
    ]_vars

\* the model's JSON had an error key (the answer with confidence 1) and the
\* stored result has none
C20_Witness ==
  \E d \in DOMAIN store :
    /\ Validated(store[d].ai)
    /\ store[d].ai.confidence = Num(10)

(***************************************************************************)
(* cleanEmailBody applied to every body of at most MaxLines lines.         *)
(***************************************************************************)
\* the lines a body is made of: text, quoted text, the signature separator
\* (alone, followed by a name, without its space), rules, reply headers, an
\* attribution, an "Original Message" rule, a line ending in a carriage
\* return, and the empty line
LineShapes ==
  { << >>, <<"a">>, <<" ", "a">>, <<">", "a">>, <<" ", ">">>,
    <<"-", "-", " ">>, <<"-", "-", " ", "a">>, <<"-", "-">>, <<"_", "_">>,
    <<"From:", " ", "a">>, <<"Subject:">>,
    <<"On", " ", "a", " ", "wrote:">>,
    <<"-", "Original Message", "-">>, <<"a", "\r">> }

Bodies3 == UNION { [1..n -> LineShapes] : n \in 1..MaxLines }

CleanCall(ls) ==
  /\ call = Idle
  /\ call' = [fn |-> "cleanEmailBody", arg |-> JoinLines(ls),
              out |-> cleanEmailBody(JoinLines(ls))]
  /\ UNCHANGED <<world, store, now, pc, loc, resp, quiet, doneAtStart, upserted, gen>>

\* the caller takes the result
CallReturns ==
  /\ call # Idle
  /\ call' = Idle
  /\ UNCHANGED <<world, store, now, pc, loc, resp, quiet, doneAtStart, upserted, gen>>

NextClean ==
  \/ \E ls \in Bodies3 : CleanCall(ls)
  \/ CallReturns

SpecClean == InitAi /\ [][NextClean]_vars

Cleaned == call.fn = "cleanEmailBody"

\* the lines of a text; the empty text has none
LinesOf(t) == IF t = << >> THEN << >> ELSE SplitLines(t)

\* the lines of the input that are not quoted
KeptLines(text) ==
  SelectSeq(SplitLines(TrimChars(CrLf(text))), LAMBDA line : ~Quoted(line))

SeparatorLine == <<"-", "-", " ">>

\* C21: the output of cleanEmailBody has no line that begins with '>', and
\* when a signature-separator line ('-- ') stands among the unquoted lines
\* of the input, the output holds nothing from that line onward: it has no
\* separator line and no more lines than precede the first separator.
C21_QuotesAndSignatureRemoved ==
  Cleaned =>
    LET out == LinesOf(call.out)
        kept == KeptLines(call.arg)
        seps == { k \in 1..Len(kept) : kept[k] = SeparatorLine }
    IN /\ \A i \in 1..Len(out) : out[i] = << >> \/ Head(out[i]) # ">"
       /\ seps # {} =>
            /\ \A i \in 1..Len(out) : out[i] # SeparatorLine
            /\ Len(out) <= Least(seps) - 1

(***************************************************************************)
(* extractBodyText applied to every payload of at most MaxParts top-level  *)
(* parts, each a leaf or a multipart of one or two leaves.                 *)
(***************************************************************************)
Part(mimeType, data, parts) == [mimeType |-> mimeType, data |-> data, parts |-> parts]

PlainData == B64(<<"YWJj">>)
HtmlData == B64(<<"PGI-", "YWJj", "IGEg", "PGI-">>)
OtherData == B64(<<"Pz8_">>)

Leaves ==
  { Part("text/plain", d, << >>) : d \in {Null, PlainData} }
    \cup { Part("text/html", d, << >>) : d \in {Null, HtmlData} }
    \cup { Part("image/png", d, << >>) : d \in {Null, OtherData} }

NestedLeaves ==
  { Part("text/plain", Null, << >>), Part("text/plain", PlainData, << >>),
    Part("text/html", HtmlData, << >>) }

Multiparts ==
  { Part("multipart/alternative", Null, ps) :
      ps \in [1..1 -> NestedLeaves] \cup [1..2 -> NestedLeaves] }

Payloads ==
  {Null} \cup
    { Part("multipart/mixed", d, ps) :
        d \in {Null, OtherData},
        ps \in UNION { [1..n -> Leaves \cup Multiparts] : n \in 0..MaxParts } }

ExtractCall(payload) ==
  /\ call = Idle
  /\ call' = [fn |-> "extractBodyText", arg |-> payload, out |-> extractBodyText(payload)]
  /\ UNCHANGED <<world, store, now, pc, loc, resp, quiet, doneAtStart, upserted, gen>>

NextBody ==
  \/ \E payload \in Payloads : ExtractCall(payload)
  \/ CallReturns

SpecBody == InitAi /\ [][NextBody]_vars

RECURSIVE Flatten(_)
\* the parts of a tree in depth-first order
Flatten(parts) ==
  IF parts = << >> THEN << >>
  ELSE <<Head(parts)>> \o Flatten(Head(parts).parts) \o Flatten(Tail(parts))

\* the parts of the type that carry data, in depth-first order
WithData(payload, mimeType) ==
  SelectSeq(Flatten(payload.parts), LAMBDA p : p.mimeType = mimeType /\ HasData(p))

\* C22: when the part tree holds, at any depth, a text/plain part with data,
\* extractBodyText returns the decoding of a text/plain part; when it holds
\* none but a text/html part with data, it returns the tag-stripped decoding
\* of the first such part; for no payload at all it returns "".
C22_PlainTextPreferred ==
  call.fn = "extractBodyText" =>
    IF call.arg = Null THEN call.out = << >>
    ELSE LET plains == WithData(call.arg, "text/plain")
             htmls == WithData(call.arg, "text/html")
         IN /\ plains # << >> =>
                 \E i \in 1..Len(plains) : call.out = decodeBase64Url(plains[i].data)
            /\ (plains = << >> /\ htmls # << >>) =>
                 call.out = stripHtml(decodeBase64Url(htmls[1].data))


(***************************************************************************)
(* The message text of the prompts: triageEmail and summarizeEmail up to   *)
(* the construction of the prompt (ai.js lines 130 and 248), on emails     *)
(* whose three text fields are empty, blank, short, padded or longer than  *)
(* the budget.                                                             *)
(***************************************************************************)
\* the maxChars the routes pass
TRIAGE_MAX_CHARS == 1500
TEST_MAX_CHARS == 2000
SUMMARY_MAX_CHARS == 4000

MaxCharsOf(fn) ==
  IF fn = "triageEmail" THEN {TRIAGE_MAX_CHARS, TEST_MAX_CHARS} ELSE {SUMMARY_MAX_CHARS}

FieldTexts ==
  {EmptyText, <<Run(TRUE, 3)>>, Text(100), Text(1500), Padded(1500), Padded(2000),
   <<Run(FALSE, 1499), Run(TRUE, 2), Run(FALSE, 5)>>, Text(4001), Padded(4000)}

PromptEmails == [cleanBodyText : FieldTexts, bodyText : FieldTexts, snippet : FieldTexts]

PromptCall(fn, email, maxChars) ==
  /\ call = Idle
  /\ call' = [fn |-> fn, arg |-> email, maxChars |-> maxChars,
              out |-> PromptBody(email, maxChars)]
  /\ UNCHANGED <<world, store, now, pc, loc, resp, quiet, doneAtStart, upserted, gen>>

NextPrompt ==
  \/ \E fn \in AiFunctions, email \in PromptEmails :
       \E maxChars \in MaxCharsOf(fn) : PromptCall(fn, email, maxChars)
  \/ CallReturns

SpecPrompt == InitAi /\ [][NextPrompt]_vars

RECURSIVE ClassAt(_, _)
\* the class (whitespace or not) of the i-th character of a run-length string
ClassAt(t, i) == IF i <= Head(t).n THEN Head(t).ws ELSE ClassAt(Tail(t), i - Head(t).n)

IsPrefixText(a, b) ==
  /\ TextLen(a) <= TextLen(b)
  /\ \A i \in 1..TextLen(a) : ClassAt(a, i) = ClassAt(b, i)

\* the fields of an email in the order of preference
FieldsOf(email) == <<email.cleanBodyText, email.bodyText, email.snippet>>

\* C23: the message text of a prompt is the first non-empty of cleanBodyText,
\* bodyText and snippet (the empty string when all are empty), trimmed and
\* cut to maxChars: it is never longer than maxChars, it is a prefix of the
\* trimmed selected field, and nothing is cut from a text within the budget.
C23_PromptBodyWithinBudget ==
  call.fn \in AiFunctions =>
    LET fields == FieldsOf(call.arg)
        filled == { i \in 1..3 : TextLen(fields[i]) > 0 }
        selected == IF filled = {} THEN EmptyText ELSE Trim(fields[Least(filled)])
    IN /\ TextLen(call.out) <= call.maxChars
       /\ IsPrefixText(call.out, selected)
       /\ TextLen(call.out) = IF TextLen(selected) <= call.maxChars
                              THEN TextLen(selected) ELSE call.maxChars

\* a prompt whose selected field is not the first one and is cut
C23_Witness ==
  /\ call.fn = "triageEmail"
  /\ call.maxChars = TRIAGE_MAX_CHARS
  /\ call.arg.cleanBodyText = EmptyText
  /\ call.arg.bodyText = Padded(2000)
  /\ call.out = Text(1500)

(***************************************************************************)
(* src/server/routes.js: DELETE /emails (lines 450-476), one request at a  *)
(* time on a collection nobody else writes.  The locals of the handler are *)
(* in call; startSize records the size of the collection when the request  *)
(* arrived.                                                                *)
(***************************************************************************)
BATCH_SIZE == 400

\* the largest collection: two full batches and one document more
MaxDocs == 801

\* how far from a multiple of the batch size the sizes of the collection go
Margin == 20

\* the sizes of the collection: around every multiple of the batch size
Sizes ==
  { n \in 0..MaxDocs :
      n % BATCH_SIZE <= Margin \/ n % BATCH_SIZE >= BATCH_SIZE - Margin }

\* emailsRef.limit(k).get(): the first k documents in the order of their
\* ids.  The k documents below Min + k, when there are k of them, are the k
\* least ones.
Limit(S, k) ==
  IF Cardinality(S) <= k THEN S
  ELSE LET near == { d \in S : d < Min(S) + k }
       IN IF Cardinality(near) = k THEN near
          ELSE { d \in S : Cardinality({ e \in S : e < d }) < k }

DeleteAll(at, deleted, snap, startSize, r) ==
  [fn |-> "DELETE /emails", at |-> at, deleted |-> deleted, snap |-> snap,
   startSize |-> startSize, resp |-> r]

\* requireAuth, then the handler up to the first get (lines 212-215, 453-459)
DeleteAllStart(user) ==
  /\ call = Idle
  /\ call' = IF user = Null
             THEN DeleteAll("done", 0, {}, Cardinality(DOMAIN store),
                            Json(401, [error |-> "Not authenticated. Login at /auth/google"]))
             ELSE DeleteAll("get", 0, {}, Cardinality(DOMAIN store), NoResp)
  /\ UNCHANGED <<world, store, now, pc, loc, resp, quiet, doneAtStart, upserted, gen>>

\* const snap = await emailsRef.limit(BATCH_SIZE).get(); if (snap.empty) break
\* (lines 459-460, 472), or the get rejects
DeleteAllGet(storeOk) ==
  /\ call.fn = "DELETE /emails"
  /\ call.at = "get"
  /\ LET snap == Limit(DOMAIN store, BATCH_SIZE) IN
     call' = IF ~storeOk
             THEN [call EXCEPT !.at = "done", !.resp = ServerError("store unavailable")]
             ELSE IF snap = {}
             THEN [call EXCEPT !.at = "done", !.snap = snap,
                               !.resp = Json(200, [ok |-> TRUE, deleted |-> call.deleted])]
             ELSE [call EXCEPT !.at = "commit", !.snap = snap]
  /\ UNCHANGED <<world, store, now, pc, loc, resp, quiet, doneAtStart, upserted, gen>>

\* the same with the loop left after a full batch too
DeleteAllCommitOnce(storeOk) ==
  /\ call.fn = "DELETE /emails"
  /\ call.at = "commit"
  /\ IF ~storeOk
     THEN /\ call' = [call EXCEPT !.at = "done", !.resp = ServerError("store unavailable")]
          /\ UNCHANGED store
     ELSE /\ store' = [d \in DOMAIN store \ call.snap |-> store[d]]
          /\ call' = [call EXCEPT !.at = "done",
                                  !.deleted = @ + Cardinality(call.snap),
                                  !.resp = Json(200, [ok |-> TRUE,
                                                      deleted |-> call.deleted + Cardinality(call.snap)])]
  /\ UNCHANGED <<world, now, pc, loc, resp, quiet, doneAtStart, upserted, gen>>

\* await batch.commit(); deleted += snap.size; if (snap.size < BATCH_SIZE)
\* break (lines 462-469, 472), or the commit rejects
DeleteAllCommit(storeOk) ==
  /\ call.fn = "DELETE /emails"
  /\ call.at = "commit"
  /\ IF ~storeOk
     THEN /\ call' = [call EXCEPT !.at = "done", !.resp = ServerError("store unavailable")]
          /\ UNCHANGED store
     ELSE LET size == Cardinality(call.snap) IN
          /\ store' = [d \in DOMAIN store \ call.snap |-> store[d]]
          /\ call' = IF size < BATCH_SIZE
                     THEN [call EXCEPT !.at = "done", !.deleted = @ + size,
                                       !.resp = Json(200, [ok |-> TRUE,
                                                           deleted |-> call.deleted + size])]
                     ELSE [call EXCEPT !.at = "get", !.deleted = @ + size]
  /\ UNCHANGED <<world, now, pc, loc, resp, quiet, doneAtStart, upserted, gen>>

\* the response is sent (line 472, or lines 485-488); the handler is over
DeleteAllEnds ==
  /\ call.fn = "DELETE /emails"
  /\ call.at = "done"
  /\ call' = Idle
  /\ UNCHANGED <<world, store, now, pc, loc, resp, quiet, doneAtStart, upserted, gen>>

\* the user's collection when the request arrives
InitDelete ==
  /\ world = World(<< >>, {}, 0, {}, {}, {})
  /\ store \in { [d \in Ids(n) |-> [gmailId |-> d]] : n \in Sizes }
  /\ now = 0
  /\ pc = [s \in Slots |-> "idle"]
  /\ loc = [s \in Slots |-> NoLocals]
  /\ resp = [s \in Slots |-> NoResp]
  /\ quiet = [s \in Slots |-> FALSE]
  /\ doneAtStart = [s \in Slots |-> {}]
  /\ upserted = [s \in Slots |-> FALSE]
  /\ gen = NoCall
  /\ call = Idle

DeleteAllStep == \E storeOk \in BOOLEAN : DeleteAllGet(storeOk) \/ DeleteAllCommit(storeOk)

NextDelete ==
  \/ \E user \in Users : DeleteAllStart(user)
  \/ \E storeOk \in BOOLEAN : DeleteAllGet(storeOk)
  \/ \E storeOk \in BOOLEAN : DeleteAllCommit(storeOk)
  \/ DeleteAllEnds

\* every awaited store call settles, and the handler goes on when it does
SpecDelete == InitDelete /\ [][NextDelete]_vars /\ WF_vars(DeleteAllStep)

\* C24: on a collection nobody else writes, a DELETE /emails request ends
\* whatever the size of the collection; no batch holds more than 400
\* documents; and when it ends with its success response the collection is
\* empty and deleted is the number of documents present at the start.
C24_DeleteAllEmptiesCollection ==
  /\ [][Cardinality(DOMAIN store) - Cardinality(DOMAIN store') <= BATCH_SIZE]_vars
  /\ [](call.fn = "DELETE /emails" =>
          /\ Cardinality(call.snap) <= BATCH_SIZE
          /\ (call.at = "done" /\ call.resp.status = 200) =>
               /\ DOMAIN store = {}
               /\ call.resp.body.deleted = call.startSize)
  /\ [](call.fn = "DELETE /emails" => <>(call.fn = "DELETE /emails" /\ call.at = "done"))

\* a collection of exactly two full batches was deleted
C24_Witness ==
  /\ call.fn = "DELETE /emails"
  /\ call.at = "done"
  /\ call.startSize = 2 * BATCH_SIZE
  /\ call.resp = Json(200, [ok |-> TRUE, deleted |-> 2 * BATCH_SIZE])
  /\ DOMAIN store = {}

\* C25: the sync calls summarizeEmail for a fetched message exactly when the
\* record read back after the upsert has no aiSummary and the trimmed text
\* of the message is longer than 900 characters; the call is made from
\* nowhere else, and a text of exactly 900 characters is not summarized.
C25_SummarizeIffLongAndNew ==
  [][\A s \in Slots :
       /\ (pc[s] = "reget" /\ pc'[s] \in {"summarize", "guard", "triage", "get"}) =>
            /\ loc'[s].data = store[DocRef(Cur(s))]
            /\ pc'[s] = "summarize" <=>
                 /\ store[DocRef(Cur(s))].aiSummary = Null
                 /\ TextLen(pickMessage(Cur(s))) > 900
       /\ (pc'[s] = "summarize" /\ pc[s] # "summarize") => pc[s] = "reget"
    ]_vars

\* in a batch of two, the first message, of exactly 900 characters, was
\* passed without a summary and the second, of 901, is being summarized
C25_Witness ==
  \E s \in Slots :
    /\ pc[s] = "summarize" /\ loc[s].idx = 2
    /\ TextLen(pickMessage(loc[s].emails[1])) = 900
    /\ store[DocRef(loc[s].emails[1])].aiSummary = Null
    /\ TextLen(pickMessage(Cur(s))) = 901
    /\ loc[s].data.aiSummary = Null

\* C26: after a summarization attempt has failed the record holds the empty
\* SummaryResult (title and summary empty, no key points) with error set,
\* and no sync is ever summarizing a message whose record holds it.
C26_FailedSummaryIsFinal ==
  /\ [][\A s \in { t \in Slots : pc[t] = "summarize" /\ pc'[t] # "summarize" },
          net \in world.summaryNets, storeOk, fallbackOk \in BOOLEAN :
         (~summarizeEmail(net, SUMMARY_TIMEOUT).ok /\ Summarize(s, net, storeOk, fallbackOk)) =>
           LET sum == store'[DocRef(Cur(s))].aiSummary IN
           /\ sum # Null
           /\ sum = FallbackSummary(summarizeEmail(net, SUMMARY_TIMEOUT).error, now)
      ]_vars
  /\ [](\A s \in Slots :
          pc[s] = "summarize" =>
            \A d \in DOMAIN store :
              store[d].gmailId = Cur(s).gmailId => store[d].aiSummary = Null)

C29_SyncedMessagesHaveReply ==
  [][\A s \in Slots :
       (pc[s] \in LoopPcs /\ pc'[s] = "done" /\ resp'[s].status = 200) =>
         \A i \in 1..Len(loc[s].emails) :
           LET d == DocRef(loc[s].emails[i]) IN
           /\ d \in DOMAIN store'
           /\ store'[d].ai # Null
           /\ Truthy(Field(store'[d].ai, "reply_draft"))
    ]_vars

\* C30: when fetchLatestEmails fails the sync request ends with the error
\* response that carries the failure's message; that step writes nothing to
\* the store, and no step of a request up to its fetch writes to the store
\* or starts a summary or triage call.
C30_FetchFailureIsFatal ==
  /\ [][\A s \in Slots :
         FetchFails(s) =>
           /\ pc'[s] = "done"
           /\ resp'[s].status = 500
           /\ resp'[s].body = [error |-> "Server error", details |-> "gmail request failed"]
           /\ store' = store
      ]_vars
  /\ [][\A s \in Slots :
         (pc[s] \in {"idle", "health", "fetch"} /\ pc'[s] # pc[s]) =>
           /\ store' = store
           /\ pc'[s] \notin {"summarize", "triage"}
           /\ loc[s].emails = << >> /\ loc[s].cnt = ZeroCounters
      ]_vars

\* the fetch of a sync failed while a message of an earlier sync is stored;
\* the sync answered 500 and the record is as it was written
C30_Witness ==
  \E s \in Slots :
    /\ pc[s] = "done" /\ resp[s] = ServerError("gmail request failed")
    /\ \E d \in DOMAIN store :
         /\ store[d].updatedAt = store[d].createdAt /\ store[d].createdAt < now
         /\ store[d].ai # Null

\* C31: when the model's triage JSON is anything other than the expected
\* shape (a key missing, a key beyond category, urgency, confidence and
\* reply_draft, or a value of the wrong type or range), triageEmail throws.
C31_UnexpectedShapeThrows ==
  (Returned /\ gen.fn = "triageEmail" /\ gen.json # Null /\ gen.json.ok) =>
    LET j == gen.json.value
        expected ==
          /\ DOMAIN j = {"category", "urgency", "confidence", "reply_draft"}
          /\ j.category \in { Str(c) : c \in Categories }
          /\ j.urgency \in { Str(u) : u \in Urgencies }
          /\ j.confidence.t = "num" /\ j.confidence.v >= 0 /\ j.confidence.v <= 10
          /\ j.reply_draft.t = "str" /\ j.reply_draft.v # ""
    IN ~expected => ~gen.result.ok

\* C32: when the model's summary JSON is valid and has a title, the
\* SummaryResult summarizeEmail returns has that title, unmodified.
C32_SummaryTitleIsKept ==
  ( /\ Returned /\ gen.fn = "summarizeEmail" /\ gen.result.ok
    /\ "title" \in DOMAIN gen.json.value ) =>
    /\ "title" \in DOMAIN gen.result.value
    /\ gen.result.value.title = gen.json.value.title

\* a line that is a reply marker: an attribution ('On ... wrote:'), a header
\* ('From: ...'), an 'Original Message' rule, or two or more '_' or '-'
MarkerLine(line) ==
  \/ /\ Len(line) >= 3 /\ line[1] = "On" /\ line[2] = " " /\ line[Len(line)] = "wrote:"
  \/ /\ Len(line) >= 2 /\ line[1] \in {"From:", "Subject:"} /\ line[2] = " "
  \/ \E p, q \in 1..Len(line) :
       /\ p < q /\ q < Len(line) /\ line[q] = "Original Message"
       /\ AllIn(line, 1, p, {"-"}) /\ AllIn(line, p + 1, q - 1, {" "})
       /\ \E r \in (q + 1)..Len(line) :
            AllIn(line, q + 1, r - 1, {" "}) /\ AllIn(line, r, Len(line), {"-"})
  \/ /\ Len(line) >= 2
     /\ (AllIn(line, 1, Len(line), {"_"}) \/ AllIn(line, 1, Len(line), {"-"}))

\* C33: the output of cleanEmailBody is cut at the earliest reply marker:
\* when a marker line stands among the unquoted lines of the input, the
\* output has no more lines than precede the earliest marker line, and each
\* of its lines is, up to surrounding white space, one of those lines.
C33_CutAtEarliestMarker ==
  Cleaned =>
    LET out == LinesOf(call.out)
        kept == KeptLines(call.arg)
        marks == { k \in 1..Len(kept) : MarkerLine(kept[k]) }
    IN marks # {} =>
         /\ Len(out) <= Least(marks) - 1
         /\ \A i \in 1..Len(out) :
              \E j \in 1..(Least(marks) - 1) : TrimChars(out[i]) = TrimChars(kept[j])

\* a rule stands before a header and the text is cut at the rule
C33_Witness ==
  /\ Cleaned
  /\ call.arg = <<"a", "\n", "-", "-", "\n", "From:", " ", "a">>
  /\ call.out = <<"a">>

\* C34: cleanEmailBody is idempotent: cleaning its own output changes
\* nothing.
C34_CleanIsIdempotent ==
  Cleaned => cleanEmailBody(call.out) = call.out

(***************************************************************************)
(* src/server/routes.js: GET /emails/:gmailId (lines 414-430), DELETE      *)
(* /emails/:gmailId (lines 433-447) and POST /ai/test (lines 225-246), one *)
(* request at a time.  The locals of the handler are in call; reads and    *)
(* writes count its calls of the user's email collection and requests its  *)
(* requests to /api/generate.                                              *)
(***************************************************************************)
\* the most documents of the collection
MaxStored == 3

\* the names the module of the router binds: its imports (lines 187-189)
\* and its own functions
Bindings ==
  {"express", "makeOAuthClient", "fetchLatestEmails", "triageEmail", "summarizeEmail",
   "asyncHandler", "checkOllamaQuick", "makeRoutes"}

Req(route, user, gmailId) ==
  [fn |-> route, user |-> user, gmailId |-> gmailId, at |-> "start",
   reads |-> 0, writes |-> 0, requests |-> 0, resp |-> NoResp]

NotAuthenticated == Json(401, [error |-> "Not authenticated. Login at /auth/google"])

\* the handler answers r
Answers(c, r) == [c EXCEPT !.at = "done", !.resp = r]

\* requireAuth, then the handler up to await docRef.get() (lines 212-215,
\* 417-422)
GetEmailStart(user, gmailId) ==
  /\ call = Idle
  /\ call' = LET c == Req("GET /emails/:gmailId", user, gmailId) IN
             IF user = Null THEN Answers(c, NotAuthenticated)
             ELSE [c EXCEPT !.at = "get", !.reads = 1]
  /\ UNCHANGED <<world, store, now, pc, loc, resp, quiet, doneAtStart, upserted, gen>>

\* docRef.get() settles; the handler runs to its response (lines 422-428).
\* markEmailAsRead and oauth2Client are bound nowhere in the module, so the
\* call of line 424 throws a ReferenceError.
GetEmailRead(storeOk) ==
  /\ call.fn = "GET /emails/:gmailId"
  /\ call.at = "get"
  /\ LET snap == DocGet(store, call.gmailId) IN
     call' = IF ~storeOk THEN Answers(call, ServerError("store unavailable"))
             ELSE IF "markEmailAsRead" \notin Bindings
             THEN Answers(call, ServerError("markEmailAsRead is not defined"))
             ELSE IF ~snap.exists THEN Answers(call, Json(404, [error |-> "Email not found"]))
             ELSE Answers(call, Json(200, [email |-> With(snap.data, "id", call.gmailId)]))
  /\ UNCHANGED <<world, store, now, pc, loc, resp, quiet, doneAtStart, upserted, gen>>

\* requireAuth, then the handler up to await docRef.get() (lines 435-441)
DeleteOneStart(user, gmailId) ==
  /\ call = Idle
  /\ call' = LET c == Req("DELETE /emails/:gmailId", user, gmailId) IN
             IF user = Null THEN Answers(c, NotAuthenticated)
             ELSE [c EXCEPT !.at = "get", !.reads = 1]
  /\ UNCHANGED <<world, store, now, pc, loc, resp, quiet, doneAtStart, upserted, gen>>

\* docRef.get() settles (lines 441-444)
DeleteOneRead(storeOk) ==
  /\ call.fn = "DELETE /emails/:gmailId"
  /\ call.at = "get"
  /\ call' = IF ~storeOk THEN Answers(call, ServerError("store unavailable"))
             ELSE IF ~DocGet(store, call.gmailId).exists
             THEN Answers(call, Json(404, [error |-> "Email not found"]))
             ELSE [call EXCEPT !.at = "delete", !.writes = 1]
  /\ UNCHANGED <<world, store, now, pc, loc, resp, quiet, doneAtStart, upserted, gen>>

\* docRef.delete() settles (lines 444-445)
DeleteOneCommit(storeOk) ==
  /\ call.fn = "DELETE /emails/:gmailId"
  /\ call.at = "delete"
  /\ IF storeOk
     THEN /\ store' = [d \in DOMAIN store \ {call.gmailId} |-> store[d]]
          /\ call' = Answers(call, Json(200, [ok |-> TRUE, deleted |-> call.gmailId]))
     ELSE /\ call' = Answers(call, ServerError("store unavailable"))
          /\ UNCHANGED store
  /\ UNCHANGED <<world, now, pc, loc, resp, quiet, doneAtStart, upserted, gen>>

\* POST /ai/test up to await triageEmail: the route has no requireAuth, and
\* triageEmail sends its request to /api/generate (lines 225-241)
AiTestStart(user) ==
  /\ call = Idle
  /\ call' = [Req("POST /ai/test", user, 0) EXCEPT !.at = "triage", !.requests = 1]
  /\ UNCHANGED <<world, store, now, pc, loc, resp, quiet, doneAtStart, upserted, gen>>

\* triageEmail settles (lines 234-245)
AiTestSettles(net) ==
  /\ call.fn = "POST /ai/test"
  /\ call.at = "triage"
  /\ LET triage == triageEmail(net, TRIAGE_TIMEOUT) IN
     call' = IF triage.ok
             THEN Answers(call, Json(200, [ok |-> TRUE, triage |-> triage.value]))
             ELSE Answers(call, ServerError(triage.error))
  /\ UNCHANGED <<world, store, now, pc, loc, resp, quiet, doneAtStart, upserted, gen>>

\* the response is sent; the handler is over
RouteEnds ==
  /\ call # Idle
  /\ call.at = "done"
  /\ call.fn \in {"GET /emails/:gmailId", "DELETE /emails/:gmailId", "POST /ai/test"}
  /\ call' = Idle
  /\ UNCHANGED <<world, store, now, pc, loc, resp, quiet, doneAtStart, upserted, gen>>

\* the user's collection when the requests arrive
InitApi ==
  /\ world = World(<< >>, {}, 0, {}, {}, {})
  /\ store \in { [d \in S |-> NewDoc(Email(d, ShortMail, TRUE), 0)] : S \in SUBSET Ids(MaxStored) }
  /\ now = 0
  /\ pc = [s \in Slots |-> "idle"]
  /\ loc = [s \in Slots |-> NoLocals]
  /\ resp = [s \in Slots |-> NoResp]
  /\ quiet = [s \in Slots |-> FALSE]
  /\ doneAtStart = [s \in Slots |-> {}]
  /\ upserted = [s \in Slots |-> FALSE]
  /\ gen = NoCall
  /\ call = Idle

NextApi ==
  \/ \E user \in Users, gmailId \in Ids(MaxStored) : GetEmailStart(user, gmailId)
  \/ \E storeOk \in BOOLEAN : GetEmailRead(storeOk)
  \/ \E user \in Users, gmailId \in Ids(MaxStored) : DeleteOneStart(user, gmailId)
  \/ \E storeOk \in BOOLEAN : DeleteOneRead(storeOk)
  \/ \E storeOk \in BOOLEAN : DeleteOneCommit(storeOk)
  \/ \E user \in Users : AiTestStart(user)
  \/ \E net \in TriageNets : AiTestSettles(net)
  \/ RouteEnds

SpecApi == InitApi /\ [][NextApi]_vars

\* C35: GET /emails/:gmailId of an authenticated user whose store read
\* succeeds answers 404 'Email not found' when the collection has no record
\* of that gmailId, and otherwise answers 200 with the stored record; it
\* never answers with a server error.
C35_GetEmailFoundOrNotFound ==
  ( /\ call.fn = "GET /emails/:gmailId" /\ call.at = "done" /\ call.user # Null
    /\ call.resp # ServerError("store unavailable") ) =>
    IF call.gmailId \in DOMAIN store
    THEN call.resp = Json(200, [email |-> With(store[call.gmailId], "id", call.gmailId)])
    ELSE call.resp = Json(404, [error |-> "Email not found"])

\* C38: a request without an authenticated user makes no read or write of
\* an email collection and no request to /api/generate; it is answered 401.
C38_NoWorkWithoutUser ==
  ( /\ call # Idle
    /\ call.fn \in {"GET /emails/:gmailId", "DELETE /emails/:gmailId", "POST /ai/test"}
    /\ call.user = Null ) =>
    /\ call.reads = 0 /\ call.writes = 0 /\ call.requests = 0
    /\ call.at = "done" /\ call.resp = NotAuthenticated

\* C36: in every success response of a sync, fetched is the number of
\* messages fetched, created, triaged and summarized are at most fetched,
\* and aiErrors is the number of fallback TriageResults plus the number of
\* error SummaryResults that the request wrote (so at most twice fetched);
\* every fallback TriageResult is counted in triaged too.
C36_CountersAreBounded ==
  [][\A s \in Slots :
       (pc[s] \in LoopPcs \cup {"fetch"} /\ pc'[s] = "done" /\ resp'[s].status = 200) =>
         LET n == Len(loc[s].emails)
             b == resp'[s].body
             wrote(r) == /\ r # Null /\ "error" \in DOMAIN r
                         /\ r.createdAt = Ms(loc[s].startedAt)
             fallbacks ==
               Cardinality({ i \in 1..n : wrote(store'[DocRef(loc[s].emails[i])].ai) })
             errorSummaries ==
               Cardinality({ i \in 1..n : wrote(store'[DocRef(loc[s].emails[i])].aiSummary) })
         IN /\ b.fetched = n
            /\ b.created <= n /\ b.triaged <= n /\ b.summarized <= n
            /\ b.aiErrors = fallbacks + errorSummaries
            /\ b.aiErrors <= 2 * n
            /\ fallbacks <= b.triaged
    ]_vars

\* the summary and the triage of the one message of a sync both failed
C36_Witness ==
  \E s \in Slots :
    /\ pc[s] = "done" /\ resp[s].status = 200
    /\ resp[s].body.fetched = 1 /\ resp[s].body.aiErrors = 2
    /\ resp[s].body.triaged = 1 /\ resp[s].body.summarized = 0
    /\ \E d \in DOMAIN store :
         /\ HasError(store[d].ai)
         /\ store[d].aiSummary # Null /\ "error" \in DOMAIN store[d].aiSummary
(***************************************************************************)
(* The maxResults of POST /emails/sync (routes.js:261), for the request    *)
(* bodies a JSON client can send                                           *)
(***************************************************************************)

\* the largest magnitude of a numeric maxResults in a request body
MaxGiven == 60

\* the values of the maxResults key: numbers, numeric and other strings,
\* booleans, null, an object
GivenValues ==
  { Num(n) : n \in -MaxGiven..MaxGiven }
    \cup { Str(""), Str(" "), Str("7"), Str("1e3"), Str("abc"), Str("ten") }
    \cup { Bool(TRUE), Bool(FALSE), Null, [t |-> "obj"] }

\* the request bodies: without the key, and with each value of it
ClampBodies == {<< >>} \cup { [maxResults |-> g] : g \in GivenValues }

\* line 261 of one request
ClampCall(body) ==
  /\ call = Idle
  /\ call' = [fn |-> "maxResults", arg |-> body, out |-> MaxResults(body)]
  /\ UNCHANGED <<world, store, now, pc, loc, resp, quiet, doneAtStart, upserted, gen>>

NextClamp ==
  \/ \E body \in ClampBodies : ClampCall(body)
  \/ CallReturns

SpecClamp == InitAi /\ [][NextClamp]_vars

\* C37: for every request body the maxResults passed to fetchLatestEmails is
\* a number between 1 and 50 inclusive, and it is 20 when the body gives
\* none; no request value, non-numeric ones included, makes it fall outside
C37_MaxResultsInRange ==
  call.fn = "maxResults" =>
    /\ call.out.t = "num"
    /\ call.out.v \in 1..MAX_MAX_RESULTS
    /\ Field(call.arg, "maxResults") = Null => call.out = Num(DEFAULT_MAX_RESULTS)

(***************************************************************************)
(* The client (src/client/src/App.jsx, lines 173-413): the App component   *)
(* of one page, its state, its renders and effects, and the responses of   *)
(* the requests it has in flight                                           *)
(***************************************************************************)

\* the page loads of one browser tab
MaxLoads == 2
\* the logout requests in flight at once (the Logout button is never disabled)
MaxLogouts == 2

\* the sync jobs of one page whose responses are considered
MaxJobs == 2

\* authed = !!me?.user (line 197)
authed(me) == me = "user"

\* what a render closes over: me and didInitialSync
Rendered(c) == [me |-> c.me, didInitialSync |-> c.didInitialSync]
\* the dependency array of the auto-sync effect (line 397)
DepsOf(view) == <<authed(view.me), view.didInitialSync>>

\* useState initial values (lines 176-195), the first render of them, and the
\* mount effect of lines 294-303, which issues GET /api/me
Mounted(loads) ==
  [fn |-> "App", loads |-> loads, me |-> "unset", emails |-> "empty",
   loading |-> FALSE, didInitialSync |-> FALSE,
   view |-> [me |-> "unset", didInitialSync |-> FALSE], deps |-> << >>,
   meReq |-> "flying", refreshes |-> 0, jobs |-> << >>, logouts |-> 0,
   syncs |-> 0]

ClientStep(c) ==
  /\ call' = c
  /\ UNCHANGED <<world, store, now, pc, loc, resp, quiet, doneAtStart, upserted, gen>>

\* the page is opened
PageLoad ==
  /\ call = Idle
  /\ ClientStep(Mounted(1))

\* the Login link of the login screen (lines 416-435): the browser leaves the
\* page, its requests in flight are dropped, and the OAuth redirect loads
\* the page again
LoginLink ==
  /\ call.fn = "App"
  /\ call.view.me = "none"
  /\ call.loads < MaxLoads
  /\ ClientStep(Mounted(call.loads + 1))

\* the response of GET /api/me (lines 296-301): setMe(data), or
\* setMe({ user: null }) when the request fails
MeSettles(user) ==
  /\ call.fn = "App"
  /\ call.meReq = "flying"
  /\ ClientStep([call EXCEPT !.me = user, !.meReq = "done"])

\* a render of the current state; effects of the previous render are flushed
\* before it
Render ==
  /\ call.fn = "App"
  /\ call.deps = DepsOf(call.view)
  /\ call.view # Rendered(call)
  /\ ClientStep([call EXCEPT !.view = Rendered(call)])

\* mutant of AutoSyncEffect: the effect does not return when didInitialSync
\* is set
AutoSyncEffectUnguarded ==
  /\ call.fn = "App"
  /\ call.deps # DepsOf(call.view)
  /\ ClientStep(
       IF ~authed(call.view.me)
       THEN [call EXCEPT !.deps = DepsOf(call.view)]
       ELSE [call EXCEPT !.deps = DepsOf(call.view),
                         !.refreshes = @ + 1,
                         !.loading = TRUE,
                         !.jobs = Append(@, "health")])

\* the auto-sync effect (lines 365-397), run after a render whose
\* [authed, didInitialSync] differ from those of its last run: nothing when
\* not authed; else refreshEmails() is issued and, unless didInitialSync,
\* the sync job starts: setLoading(true) and the request of refreshHealth
AutoSyncEffect ==
  /\ call.fn = "App"
  /\ call.deps # DepsOf(call.view)
  /\ ClientStep(
       IF ~authed(call.view.me)
       THEN [call EXCEPT !.deps = DepsOf(call.view)]
       ELSE IF call.view.didInitialSync
       THEN [call EXCEPT !.deps = DepsOf(call.view),
                         !.refreshes = @ + 1]
       ELSE [call EXCEPT !.deps = DepsOf(call.view),
                         !.refreshes = @ + 1,
                         !.loading = TRUE,
                         !.jobs = Append(@, "health")])

\* the response of the refreshEmails() of the effect (lines 316-319, 369):
\* setEmails, or the swallowed failure
refreshEmails(ok) ==
  /\ call.fn = "App"
  /\ call.refreshes > 0
  /\ ClientStep([call EXCEPT !.refreshes = @ - 1,
                             !.emails = IF ok THEN "listed" ELSE @])

\* jobs without the i-th
Without(jobs, i) == SubSeq(jobs, 1, i - 1) \o SubSeq(jobs, i + 1, Len(jobs))

\* the finally of the sync job (lines 392-395)
JobEnds(c, i) ==
  [c EXCEPT !.jobs = Without(@, i), !.loading = FALSE, !.didInitialSync = TRUE]

\* refreshHealth settles, either way (lines 305-314, 378), and the job issues
\* POST /api/emails/sync (lines 380-384)
refreshHealth(i) ==
  /\ call.fn = "App"
  /\ i \in DOMAIN call.jobs
  /\ call.jobs[i] = "health"
  /\ ClientStep([call EXCEPT !.jobs[i] = "sync", !.syncs = @ + 1])

\* the response of POST /api/emails/sync: the job goes on to
\* `await refreshEmails()` (line 389), or to the catch and the finally
SyncSettles(i, ok) ==
  /\ call.fn = "App"
  /\ i \in DOMAIN call.jobs
  /\ call.jobs[i] = "sync"
  /\ ClientStep(IF ok THEN [call EXCEPT !.jobs[i] = "refresh"] ELSE JobEnds(call, i))

\* the response of the refreshEmails() of the job, then the finally
JobRefreshSettles(i, ok) ==
  /\ call.fn = "App"
  /\ i \in DOMAIN call.jobs
  /\ call.jobs[i] = "refresh"
  /\ ClientStep(JobEnds([call EXCEPT !.emails = IF ok THEN "listed" ELSE @], i))

\* a click on Logout (line 448), shown when the render is authed:
\* setLoading(true) and POST /api/logout (lines 399-402)
logoutClick ==
  /\ call.fn = "App"
  /\ authed(call.view.me)
  /\ call.logouts < MaxLogouts
  /\ ClientStep([call EXCEPT !.logouts = @ + 1, !.loading = TRUE])

\* the response of POST /api/logout (lines 403-412)
logout(ok) ==
  /\ call.fn = "App"
  /\ call.logouts > 0
  /\ ClientStep(
       IF ok
       THEN [call EXCEPT !.logouts = @ - 1, !.me = "none", !.emails = "empty",
                         !.didInitialSync = FALSE, !.loading = FALSE]
       ELSE [call EXCEPT !.logouts = @ - 1, !.loading = FALSE])

NextClient ==
  \/ PageLoad
  \/ LoginLink
  \/ \E user \in {"user", "none"} : MeSettles(user)
  \/ Render
  \/ AutoSyncEffect
  \/ \E ok \in BOOLEAN : refreshEmails(ok)
  \/ \E i \in 1..MaxJobs : refreshHealth(i)
  \/ \E i \in 1..MaxJobs, ok \in BOOLEAN : SyncSettles(i, ok)
  \/ \E i \in 1..MaxJobs, ok \in BOOLEAN : JobRefreshSettles(i, ok)
  \/ logoutClick
  \/ \E ok \in BOOLEAN : logout(ok)

SpecClient == InitAi /\ [][NextClient]_vars

====
